---- MODULE Spec2Model ----
(***************************************************************************)
(* A model of the ika-paintboard server: the PaintBoardManager             *)
(* (src/src/paintboard.ts, latest revision, lines 389-664) and the Bun     *)
(* server that drives it (src/src/index.ts).                               *)
(*                                                                         *)
(* JavaScript runs every handler to completion on one event loop, so each  *)
(* handler (websocket.open/message/close, fetch, the tick interval, a      *)
(* timer callback) is one atomic action.  The only suspension point that   *)
(* matters is the await of validatePaste inside generateToken, which is    *)
(* split in two actions.                                                   *)
(*                                                                         *)
(* ws.close(code) is Bun's ServerWebSocket.close, which ends the socket    *)
(* through uWebSockets' end(): it "immediately calls the close handler",   *)
(* so websocket.close runs inside the call, before close() returns.        *)
(***************************************************************************)
EXTENDS Integers, Sequences, FiniteSets, TLC

(***************************************************************************)
(* Configuration (config.yml, validated by configSchema).                  *)
(***************************************************************************)
width == 2
height == 2
paintDelay == 1000
maxPacketPerSecond == 2
maxWebSocketPerIP == 2
banDuration == 60000

(***************************************************************************)
(* Program constants.                                                      *)
(***************************************************************************)
grayValue == 170
SUCCESS == 239
INVALID_TOKEN == 237
COOLING == 238
BAD_FORMAT == 236
NO_PERMISSION == 235
RateWindowMs == 1000
RateBanMs == 15000
PongTimeoutMs == 3000

(***************************************************************************)
(* Bounds of the model.                                                    *)
(***************************************************************************)
StartTime == 1000
MaxSteps == 4
MaxTokens == 3
MaxConns == 3
MaxPending == 2
MaxSendBuffer == 18

Uids == {1, 2}
IPs == {"ip1", "ip2"}
ConnIds == 1 .. MaxConns
TokenIds == 1 .. MaxTokens
\* JavaScript's undefined, for a Map lookup that misses and an unset timer.
Undefined == -1
\* The tokens of the legacy database file, and every token there is.
LegacyTokenIds == {8, 9}
TokenSpace == (0 .. MaxTokens) \cup LegacyTokenIds
\* The last instant the model lets the clock reach (500 ms per step).
EndTime == StartTime + MaxSteps * 500
\* The last instant of the runs that follow the heartbeat (10 s per step).
HeartbeatEnd == StartTime + MaxSteps * 10000

VARIABLES
    now,            \* Date.now()
    pixelView,      \* PaintBoardManager.pixelView: width*height*3 bytes
    dirtyFlags,     \* PaintBoardManager.dirtyFlags
    dirtyList,      \* PaintBoardManager.dirtyList
    tokens,         \* PaintBoardManager.tokens: token -> uid (0: no entry)
    nextToken,      \* the next value randomUUID() returns (fresh each call)
    pendingGen,     \* generateToken calls suspended in await validatePaste
    lastPaintTime,  \* PaintBoardManager.lastPaintTime: uid -> ms
    bannedUIDs,     \* index.ts bannedUIDs
    bannedIPs,      \* index.ts bannedIPs: ip -> ban expiry
    ipConnections,  \* index.ts ipConnections: ip -> array of connections
    nextConnId,     \* index.ts nextConnId
    conns,          \* the sockets and their ws.data
    issued,         \* history: the tokens generateToken returned, per uid
    successLog,     \* history: <<instant, token>> of each uid's SUCCESS results
    written,        \* history: <<x, y>> -> successful sets since the last broadcast
    lastSet,        \* history: <<x, y>> -> colour of the last successful set
    packetLog,      \* history: the instants of a socket's latest packets
    webSocketConnectionCount,  \* index.ts webSocketConnectionCount
    phase,          \* the process: "off", "run", or "failed" (the constructor threw)
    useDB,          \* config.useDB
    board,          \* PaintBoardManager.board: its width and height fields
    storage,        \* data.db: the rows of tokens and of board_data
    legacy,         \* ./liucang.db: whether the file exists, and its token rows
    migrating,      \* DBManager.init() is suspended in its first await
    tokenReply      \* history: what generateToken returned last, per uid

boardVars == <<pixelView, dirtyFlags, dirtyList, written, lastSet>>
tokenVars == <<tokens, nextToken, pendingGen, issued>>
coolVars == <<lastPaintTime, successLog>>
connVars == <<bannedIPs, ipConnections, nextConnId, conns, packetLog,
              webSocketConnectionCount>>
storeVars == <<phase, useDB, board, storage, legacy, migrating, tokenReply>>
vars == <<now, boardVars, tokenVars, coolVars, bannedUIDs, connVars, storeVars>>

(***************************************************************************)
(* Helpers.                                                                *)
(***************************************************************************)
Pixels == 0 .. (width * height - 1)
Coords == (0 .. (width - 1)) \X (0 .. (height - 1))
NoColor == <<>>

\* array.indexOf(e), 1-based; 0 when absent
RECURSIVE IndexOf(_, _, _)
IndexOf(arr, e, i) ==
    IF i > Len(arr) THEN 0
    ELSE IF arr[i] = e THEN i
    ELSE IndexOf(arr, e, i + 1)

\* array.splice(i, 1)
Splice(arr, i) == [k \in 1 .. (Len(arr) - 1) |-> IF k < i THEN arr[k] ELSE arr[k + 1]]

SeqToSet(q) == {q[k] : k \in 1 .. Len(q)}

(***************************************************************************)
(* PaintBoardManager: the pixel store.                                     *)
(***************************************************************************)
\* initializeBoard: every byte of the buffer is grayValue
initializeBoard == [i \in 1 .. (width * height * 3) |-> grayValue]

\* getBoardBuffer: a copy of the bytes
getBoardBuffer(s) == s.pixelView

\* setPixel with x and y exchanged in the byte offset
setPixelSwapped(s, x, y, color) ==
    IF x < 0 \/ x >= board.width \/ y < 0 \/ y >= board.height
    THEN [ok |-> FALSE, s |-> s]
    ELSE LET idx == (x * board.width + y) * 3
             pixelId == y * board.width + x
         IN  [ok |-> TRUE,
              s |-> [s EXCEPT !.pixelView = [i \in DOMAIN @ |->
                                       IF i = idx + 1 THEN color[1]
                                       ELSE IF i = idx + 2 THEN color[2]
                                       ELSE IF i = idx + 3 THEN color[3]
                                       ELSE @[i]],
                              !.dirtyFlags = [@ EXCEPT ![pixelId] = TRUE],
                              !.dirtyList = IF s.dirtyFlags[pixelId] THEN @
                                            ELSE Append(@, pixelId),
                              !.written[<<x, y>>] = @ + 1,
                              !.lastSet[<<x, y>>] = color]]

\* setPixel without the dirtyFlags test: every write is pushed
setPixelAlwaysPush(s, x, y, color) ==
    IF x < 0 \/ x >= board.width \/ y < 0 \/ y >= board.height
    THEN [ok |-> FALSE, s |-> s]
    ELSE LET idx == (y * board.width + x) * 3
             pixelId == y * board.width + x
         IN  [ok |-> TRUE,
              s |-> [s EXCEPT !.pixelView = [i \in DOMAIN @ |->
                                       IF i = idx + 1 THEN color[1]
                                       ELSE IF i = idx + 2 THEN color[2]
                                       ELSE IF i = idx + 3 THEN color[3]
                                       ELSE @[i]],
                              !.dirtyFlags = [@ EXCEPT ![pixelId] = TRUE],
                              !.dirtyList = Append(@, pixelId),
                              !.written[<<x, y>>] = @ + 1,
                              !.lastSet[<<x, y>>] = color]]

\* setPixel(x, y, color): false when out of bounds of board.width and
\* board.height; else writes the three bytes at (y*board.width+x)*3 and,
\* when the pixel's flag is not set, sets it and
\* pushes the pixel id.  (index.ts passes no uid and constructs the manager
\* without allowQuery, so vis is never written.)  The history variables
\* record the request: one more set of <<x, y>>, with this colour.
setPixel(s, x, y, color) ==
    IF x < 0 \/ x >= board.width \/ y < 0 \/ y >= board.height
    THEN [ok |-> FALSE, s |-> s]
    ELSE LET idx == (y * board.width + x) * 3
             pixelId == y * board.width + x
         IN  [ok |-> TRUE,
              s |-> [s EXCEPT !.pixelView = [i \in DOMAIN @ |->
                                       IF i = idx + 1 THEN color[1]
                                       ELSE IF i = idx + 2 THEN color[2]
                                       ELSE IF i = idx + 3 THEN color[3]
                                       ELSE @[i]],
                              !.dirtyFlags = [@ EXCEPT ![pixelId] = TRUE],
                              !.dirtyList = IF s.dirtyFlags[pixelId] THEN @
                                            ELSE Append(@, pixelId),
                              !.written[<<x, y>>] = @ + 1,
                              !.lastSet[<<x, y>>] = color]]

\* One 0xFA record of flushUpdates: tag, x and y little-endian, r, g, b
UpdateRecord(pv, pixelId) ==
    LET y == pixelId \div board.width
        x == pixelId % board.width
    IN  <<250, x % 256, x \div 256, y % 256, y \div 256,
          pv[(y * board.width + x) * 3 + 1],
          pv[(y * board.width + x) * 3 + 2],
          pv[(y * board.width + x) * 3 + 3]>>

RECURSIVE BatchOf(_, _)
BatchOf(pv, list) ==
    IF list = <<>> THEN <<>>
    ELSE UpdateRecord(pv, Head(list)) \o BatchOf(pv, Tail(list))

\* flushUpdates that leaves the flags of the flushed pixels set
flushUpdatesKeepFlags(s) ==
    IF Len(s.dirtyList) > 0
    THEN [batch |-> BatchOf(s.pixelView, s.dirtyList),
          s |-> [s EXCEPT !.dirtyList = <<>>,
                          !.written = [xy \in Coords |-> 0]]]
    ELSE [batch |-> <<>>, s |-> s]

\* flushUpdates: one record per entry of dirtyList, in list order, each with
\* the pixel's present bytes; the flags and the list are cleared.  The
\* listener is installed at start-up (index.ts 562), before any paint.
flushUpdates(s) ==
    IF Len(s.dirtyList) > 0
    THEN [batch |-> BatchOf(s.pixelView, s.dirtyList),
          s |-> [s EXCEPT !.dirtyFlags = [p \in DOMAIN @ |->
                                    IF p \in SeqToSet(s.dirtyList) THEN FALSE ELSE @[p]],
                          !.dirtyList = <<>>,
                          !.written = [xy \in Coords |-> 0]]]
    ELSE [batch |-> <<>>, s |-> s]

(***************************************************************************)
(* PaintBoardManager: token check and cooldown.                            *)
(***************************************************************************)
\* validateToken that never answers COOLING
validateTokenNoCooldown(s, token, uid) ==
    LET tokenUid == tokens[token]
    IN  IF tokenUid = Undefined THEN [code |-> INVALID_TOKEN, s |-> s]
        ELSE IF tokenUid # uid THEN [code |-> INVALID_TOKEN, s |-> s]
        ELSE [code |-> SUCCESS,
              s |-> [s EXCEPT !.lastPaintTime[tokenUid] = now]]

\* validateToken that stamps lastPaintTime before the cooldown test's return
validateTokenStampOnCooling(s, token, uid) ==
    LET tokenUid == tokens[token]
    IN  IF tokenUid = Undefined THEN [code |-> INVALID_TOKEN, s |-> s]
        ELSE IF tokenUid # uid THEN [code |-> INVALID_TOKEN, s |-> s]
        ELSE LET lastPrint == s.lastPaintTime[tokenUid]
                 stamped == [s EXCEPT !.lastPaintTime[tokenUid] = now]
             IN  IF lastPrint # Undefined /\ lastPrint # 0
                    /\ now - lastPrint < paintDelay
                 THEN [code |-> COOLING, s |-> stamped]
                 ELSE [code |-> SUCCESS, s |-> stamped]

\* validateToken without the uid comparison (the older revisions)
validateTokenNoUidCheck(s, token, uid) ==
    LET tokenUid == tokens[token]
    IN  IF tokenUid = Undefined THEN [code |-> INVALID_TOKEN, s |-> s]
        ELSE LET lastPrint == s.lastPaintTime[tokenUid]
             IN  IF lastPrint # Undefined /\ lastPrint # 0
                    /\ now - lastPrint < paintDelay
                 THEN [code |-> COOLING, s |-> s]
                 ELSE [code |-> SUCCESS,
                       s |-> [s EXCEPT !.lastPaintTime[tokenUid] = now]]

\* validateToken(token, uid): the registry lookup, the uid comparison, the
\* cooldown test on lastPaintTime[uid] (`lastPrint &&` is false for a missing
\* entry and for 0), then the stamp and SUCCESS.
validateToken(s, token, uid) ==
    LET tokenUid == tokens[token]
    IN  IF tokenUid = Undefined THEN [code |-> INVALID_TOKEN, s |-> s]
        ELSE IF tokenUid # uid THEN [code |-> INVALID_TOKEN, s |-> s]
        ELSE LET lastPrint == s.lastPaintTime[tokenUid]
             IN  IF lastPrint # Undefined /\ lastPrint # 0
                    /\ now - lastPrint < paintDelay
                 THEN [code |-> COOLING, s |-> s]
                 ELSE [code |-> SUCCESS,
                       s |-> [s EXCEPT !.lastPaintTime[tokenUid] = now]]

\* The paint branch without the bannedUIDs test
TryPaintNoBanCheck(s, p) ==
    LET v == validateToken(s, p.token, p.uid)
    IN  IF v.code = SUCCESS
        THEN LET w == setPixel(v.s, p.x, p.y, p.color)
             IN  IF w.ok
                 THEN [code |-> SUCCESS,
                       s |-> [w.s EXCEPT !.successLog[p.uid] = Append(@, <<now, p.token>>)]]
                 ELSE [code |-> BAD_FORMAT, s |-> v.s]
        ELSE [code |-> v.code, s |-> v.s]

\* The paint branch of websocket.message (index.ts 498-512): the uid ban,
\* then validateToken, then setPixel when validateToken said SUCCESS.
TryPaint(s, p) ==
    IF p.uid \in bannedUIDs
    THEN [code |-> NO_PERMISSION, s |-> s]
    ELSE LET v == validateToken(s, p.token, p.uid)
         IN  IF v.code = SUCCESS
             THEN LET w == setPixel(v.s, p.x, p.y, p.color)
                  IN  IF w.ok
                      THEN [code |-> SUCCESS,
                            s |-> [w.s EXCEPT !.successLog[p.uid] = Append(@, <<now, p.token>>)]]
                      ELSE [code |-> BAD_FORMAT, s |-> v.s]
             ELSE [code |-> v.code, s |-> v.s]

\* The request id of a paint packet whose id bytes are B:
\* dataView.getUint32(offset + 26, true), as the 32-bit value that the bit
\* operators of the result packet (id & 255, id >> 8, ...) work on.
RequestId(B) ==
    B[1] + 256 * B[2] + 65536 * B[3]
      + 16777216 * (IF B[4] >= 128 THEN B[4] - 256 ELSE B[4])

\* The S2C paint_result packet: 0xFF, the id little-endian, the code
PaintResult(id, code) ==
    <<255, id % 256, (id \div 256) % 256, (id \div 65536) % 256,
      (id \div 16777216) % 256, code>>

(***************************************************************************)
(* DBManager (src/unnamed/part_000, latest revision, lines 183-342): the   *)
(* tables of data.db.  tokens is the sequence of its rows in rowid order,  *)
(* each [token, uid] with token the primary key; board_data is empty or    *)
(* holds the one row with id 1.  A token's text is ordered as its number.  *)
(***************************************************************************)
EmptyStorage == [tokens |-> <<>>, board |-> <<>>]

\* saveBoard(pixels, width, height): INSERT OR REPLACE of the row with id 1
saveBoard(st, pixels, w, h) ==
    [st EXCEPT !.board = <<[width |-> w, height |-> h, pixels |-> pixels]>>]

\* loadBoard(): the row, or the empty sequence for null
loadBoard(st) == st.board

\* saveTokenStmt: INSERT OR REPLACE INTO tokens (token, uid)
insertOrReplace(rows, token, uid) ==
    Append(SelectSeq(rows, LAMBDA r : r.token # token), [token |-> token, uid |-> uid])

\* deleteTokensByUid(uid): DELETE FROM tokens WHERE uid = ?
deleteTokensByUid(rows, uid) == SelectSeq(rows, LAMBDA r : r.uid # uid)

\* saveToken(token): one transaction of DELETE ... WHERE uid = ? AND
\* token != ?, then the insert
saveToken(rows, token, uid) ==
    insertOrReplace(SelectSeq(rows, LAMBDA r : ~(r.uid = uid /\ r.token # token)),
                    token, uid)

\* loadTokens(): of the rows of each uid the last one is kept (uidLastToken);
\* the Map token -> uid of these, Undefined where the Map has no entry
loadTokens(rows) ==
    [t \in TokenSpace |->
        IF \E k \in 1 .. Len(rows) :
              /\ rows[k].token = t
              /\ \A j \in (k + 1) .. Len(rows) : rows[j].uid # rows[k].uid
        THEN (CHOOSE r \in SeqToSet(rows) : r.token = t).uid
        ELSE Undefined]

\* The transaction of migrateOldTokens: every row of the legacy file is
\* saved with saveTokenStmt, in the file's order
RECURSIVE importRows(_, _)
importRows(rows, old) ==
    IF old = <<>> THEN rows
    ELSE importRows(insertOrReplace(rows, Head(old).token, Head(old).uid), Tail(old))

\* migrateOldTokens(): nothing when ./liucang.db does not exist
migrateOldTokens(rows, file) ==
    IF file.exists THEN importRows(rows, file.rows) ELSE rows

\* cleanupDuplicateTokens(): of each uid, the row with MAX(token) is kept
cleanupDuplicateTokens(rows) ==
    SelectSeq(rows, LAMBDA r :
        \A q \in SeqToSet(rows) : q.uid = r.uid => q.token <= r.token)

\* DBManager.init(), resumed after its await: the import, then the clean-up
init(rows, file) == cleanupDuplicateTokens(migrateOldTokens(rows, file))

\* The constructor that never reads the stored board
constructorBlankBoard(st, db, clearBoard) ==
    [ok |-> TRUE, pixelView |-> initializeBoard,
     board |-> [width |-> width, height |-> height],
     tokens |-> IF db THEN loadTokens(st.tokens) ELSE [t \in TokenSpace |-> Undefined]]

\* new PaintBoardManager(config.width, config.height, ..., useDB, clearBoard)
\* (paintboard.ts 416-472): a zero-filled buffer of width*height*3 bytes;
\* with useDB the tokens are loaded and, unless clearBoard, the stored
\* board row is adopted: board.width and board.height become the stored
\* ones and the stored bytes are copied to the start of the buffer, where
\* TypedArray.set throws a RangeError when they are more than the buffer
\* holds (ok is FALSE: the exception ends the process).  Else the buffer is
\* filled with gray.
constructor(st, db, clearBoard) ==
    IF ~db
    THEN [ok |-> TRUE, pixelView |-> initializeBoard,
          board |-> [width |-> width, height |-> height],
          tokens |-> [t \in TokenSpace |-> Undefined]]
    ELSE LET saved == loadBoard(st)
             size == width * height * 3
         IN  IF clearBoard \/ saved = <<>>
             THEN [ok |-> TRUE, pixelView |-> initializeBoard,
                   board |-> [width |-> width, height |-> height],
                   tokens |-> loadTokens(st.tokens)]
             ELSE IF Len(saved[1].pixels) > size
             THEN [ok |-> FALSE, pixelView |-> <<>>,
                   board |-> [width |-> saved[1].width, height |-> saved[1].height],
                   tokens |-> loadTokens(st.tokens)]
             ELSE [ok |-> TRUE,
                   pixelView |-> [i \in 1 .. size |->
                                    IF i <= Len(saved[1].pixels) THEN saved[1].pixels[i]
                                    ELSE 0],
                   board |-> [width |-> saved[1].width, height |-> saved[1].height],
                   tokens |-> loadTokens(st.tokens)]

(***************************************************************************)
(* PaintBoardManager: token issue.                                         *)
(***************************************************************************)
\* config.validationPaste, and an error that is undefined
validationPaste == "IkaPaintBoard"
NoError == "none"

\* validatePaste that does not compare the paste's text
validatePasteAnyContent(uid, resp) ==
    IF resp.status = 404 THEN [success |-> FALSE, error |-> "PASTE_NOT_FOUND"]
    ELSE IF resp.status # 200 THEN [success |-> FALSE, error |-> NoError]
    ELSE IF ~resp.json THEN [success |-> FALSE, error |-> NoError]
    ELSE IF resp.code # 200 THEN [success |-> FALSE, error |-> NoError]
    ELSE IF resp.uid # uid THEN [success |-> FALSE, error |-> "UID_MISMATCH"]
    ELSE [success |-> TRUE, error |-> NoError]

\* validatePaste(uid, paste) for the response resp of the paste service
\* (paintboard.ts 625-655).  resp.status is 0 when fetch threw, resp.json
\* is FALSE when resp.json() threw (both are caught), resp.uid is Undefined
\* when the document has no currentData.paste.user.uid (parseInt gives NaN).
validatePaste(uid, resp) ==
    IF resp.status = 404 THEN [success |-> FALSE, error |-> "PASTE_NOT_FOUND"]
    ELSE IF resp.status # 200 THEN [success |-> FALSE, error |-> NoError]
    ELSE IF ~resp.json THEN [success |-> FALSE, error |-> NoError]
    ELSE IF resp.code # 200 THEN [success |-> FALSE, error |-> NoError]
    ELSE IF resp.uid # uid THEN [success |-> FALSE, error |-> "UID_MISMATCH"]
    ELSE IF resp.data # validationPaste
    THEN [success |-> FALSE, error |-> "CONTENT_MISMATCH"]
    ELSE [success |-> TRUE, error |-> NoError]

\* handleTokenRequest (index.ts 652-708): the HTTP answer to what
\* generateToken returned
handleTokenRequest(result) ==
    IF result.token # Undefined THEN [status |-> 200, errorType |-> NoError]
    ELSE IF result.error \in {"PASTE_NOT_FOUND", "UID_MISMATCH", "CONTENT_MISMATCH"}
    THEN [status |-> 403, errorType |-> result.error]
    ELSE [status |-> 500, errorType |-> "SERVER_ERROR"]

\* The two calls of generateToken on the database that insert the row and
\* leave the uid's old rows in place
storeTokenInsertOnly(rows, uid, token) ==
    <<rows, rows, insertOrReplace(rows, token, uid)>>

\* The two calls generateToken makes on the database (paintboard.ts
\* 583-584), each committed by itself: the rows before them, after
\* deleteTokensByUid(uid), and after saveToken(tokenInfo).
storeToken(rows, uid, token) ==
    <<rows, deleteTokensByUid(rows, uid),
      saveToken(deleteTokensByUid(rows, uid), token, uid)>>

(***************************************************************************)
(* index.ts: bans and sockets.                                             *)
(***************************************************************************)
\* A socket that has not been opened yet.  pingTimer and pongTimer are the
\* instants the timers behind the two handles of ws.data are due (Undefined:
\* none is pending); lostTimers counts the pending timers whose handle was
\* overwritten by a later setTimeout, which clearTimeout cannot reach.
NoConn == [state |-> "none", ip |-> "", closeCode |-> 0, subscribed |-> FALSE,
           connectedAt |-> 0, lastPing |-> 0,
           packetsReceived |-> 0, lastPacketCountReset |-> 0,
           waitingPong |-> FALSE, pingTimer |-> Undefined,
           pongTimer |-> Undefined, lostTimers |-> 0, sendBuffer |-> <<>>]

\* isBanned(ip): the answer, and bannedIPs after the lazy removal
isBanned(banned, ip) ==
    LET banUntil == banned[ip]
    IN  IF banUntil = Undefined \/ banUntil = 0 THEN [banned |-> FALSE, map |-> banned]
        ELSE IF now >= banUntil
        THEN [banned |-> FALSE, map |-> [banned EXCEPT ![ip] = Undefined]]
        ELSE [banned |-> TRUE, map |-> banned]

\* banIP(ip)
banIP(s, ip) == [s EXCEPT !.bannedIPs[ip] = now + banDuration]

\* websocket.close that deletes the IP's whole array
closeHandlerForgetsIp(s, c) ==
    [s EXCEPT !.conns[c] = [@ EXCEPT !.pingTimer = Undefined,
                                     !.pongTimer = Undefined,
                                     !.sendBuffer = <<>>,
                                     !.waitingPong = FALSE,
                                     !.packetsReceived = 0,
                                     !.lastPacketCountReset = 0],
             !.packetLog[c] = <<>>,
             !.webSocketConnectionCount = @ - 1,
             !.ipConnections[s.conns[c].ip] = <<>>]

\* websocket.close that clears neither timer
closeHandlerKeepsTimers(s, c) ==
    LET ip == s.conns[c].ip
        connections == s.ipConnections[ip]
        index == IndexOf(connections, c, 1)
    IN  [s EXCEPT !.conns[c] = [@ EXCEPT !.sendBuffer = <<>>,
                                         !.packetsReceived = 0,
                                         !.lastPacketCountReset = 0],
                 !.packetLog[c] = <<>>,
                 !.webSocketConnectionCount = @ - 1,
                 !.ipConnections[ip] = IF index > 0 THEN Splice(connections, index)
                                       ELSE connections]

\* websocket.close(ws): both timers cleared, the send buffer flushed away,
\* the socket spliced out of its IP's array (an empty array is deleted from
\* the map: the model writes a missing entry as the empty array).  ws.data
\* of a closed socket is never read again; its counters are reset here.
closeHandler(s, c) ==
    LET ip == s.conns[c].ip
        connections == s.ipConnections[ip]
        index == IndexOf(connections, c, 1)
    IN  [s EXCEPT !.conns[c] = [@ EXCEPT !.pingTimer = Undefined,
                                         !.pongTimer = Undefined,
                                         !.sendBuffer = <<>>,
                                         !.waitingPong = FALSE,
                                         !.packetsReceived = 0,
                                         !.lastPacketCountReset = 0],
                 !.packetLog[c] = <<>>,
                 !.webSocketConnectionCount = @ - 1,
                 !.ipConnections[ip] = IF index > 0 THEN Splice(connections, index)
                                       ELSE connections]

\* ws.close(code, reason): nothing on a socket that is not open; else the
\* socket is closed with the code (and leaves the topic) and the close
\* handler runs before the call returns.
wsClose(s, c, code) ==
    IF s.conns[c].state # "open" THEN s
    ELSE closeHandler([s EXCEPT !.conns[c].state = "closed",
                                !.conns[c].closeCode = code,
                                !.conns[c].subscribed = FALSE], c)

\* `for (const conn of connections) conn.close(code)`: the array iterator
\* reads connections[i] of the live array, which each close handler splices.
RECURSIVE CloseEach(_, _, _, _)
CloseEach(s, ip, i, code) ==
    IF i > Len(s.ipConnections[ip]) THEN s
    ELSE CloseEach(wsClose(s, s.ipConnections[ip][i], code), ip, i + 1, code)

\* The rate-limit branch of websocket.message (index.ts 406-422)
RateLimitExceeded(s, c) ==
    LET ip == s.conns[c].ip
        b == [s EXCEPT !.bannedIPs[ip] = now + RateBanMs]
    IN  IF b.ipConnections[ip] # <<>>
        THEN [CloseEach(b, ip, 1, 1013) EXCEPT !.ipConnections[ip] = <<>>]
        ELSE b

\* The decode switch that answers a truncated paint packet BAD_FORMAT and
\* goes on
HandlePacketAnswersTruncated(s, c, p, delay) ==
    IF p.type = "pong"
    THEN IF ~s.conns[c].waitingPong
         THEN [s |-> wsClose(s, c, 1002), stop |-> TRUE]
         ELSE [s |-> [s EXCEPT !.conns[c].pongTimer = Undefined,
                               !.conns[c].waitingPong = FALSE,
                               !.conns[c].lastPing = now,
                               !.conns[c].pingTimer = now + delay],
               stop |-> FALSE]
    ELSE IF p.type = "paint"
    THEN LET r == TryPaint(s, p)
         IN  [s |-> [r.s EXCEPT !.conns[c].sendBuffer = @ \o PaintResult(p.id, r.code)],
              stop |-> FALSE]
    ELSE IF p.type = "short"
    THEN [s |-> [s EXCEPT !.conns[c].sendBuffer = @ \o PaintResult(0, BAD_FORMAT)],
          stop |-> FALSE]
    ELSE [s |-> wsClose(s, c, 1002), stop |-> TRUE]

\* The decode switch where an accepted pong leaves the pong deadline armed
HandlePacketKeepsDeadline(s, c, p, delay) ==
    IF p.type = "pong"
    THEN IF ~s.conns[c].waitingPong
         THEN [s |-> wsClose(s, c, 1002), stop |-> TRUE]
         ELSE [s |-> [s EXCEPT !.conns[c].waitingPong = FALSE,
                               !.conns[c].lastPing = now,
                               !.conns[c].lostTimers =
                                   @ + (IF s.conns[c].pingTimer # Undefined THEN 1 ELSE 0),
                               !.conns[c].pingTimer = now + delay],
               stop |-> FALSE]
    ELSE IF p.type = "paint"
    THEN LET r == TryPaint(s, p)
         IN  [s |-> [r.s EXCEPT !.conns[c].sendBuffer = @ \o PaintResult(p.id, r.code)],
              stop |-> FALSE]
    ELSE IF p.type = "short"
    THEN [s |-> wsClose(s, c, 1011), stop |-> TRUE]
    ELSE [s |-> wsClose(s, c, 1002), stop |-> TRUE]

\* The decode switch without the waitingPong test: every pong is accepted
HandlePacketAnyPong(s, c, p, delay) ==
    IF p.type = "pong"
    THEN [s |-> [s EXCEPT !.conns[c].pongTimer = Undefined,
                          !.conns[c].waitingPong = FALSE,
                          !.conns[c].lastPing = now,
                          !.conns[c].lostTimers =
                              @ + (IF s.conns[c].pingTimer # Undefined THEN 1 ELSE 0),
                          !.conns[c].pingTimer = now + delay],
          stop |-> FALSE]
    ELSE IF p.type = "paint"
    THEN LET r == TryPaint(s, p)
         IN  [s |-> [r.s EXCEPT !.conns[c].sendBuffer = @ \o PaintResult(p.id, r.code)],
              stop |-> FALSE]
    ELSE IF p.type = "short"
    THEN [s |-> wsClose(s, c, 1011), stop |-> TRUE]
    ELSE [s |-> wsClose(s, c, 1002), stop |-> TRUE]

\* The decode switch where an accepted pong schedules no next ping
HandlePacketNoNextPing(s, c, p, delay) ==
    IF p.type = "pong"
    THEN IF ~s.conns[c].waitingPong
         THEN [s |-> wsClose(s, c, 1002), stop |-> TRUE]
         ELSE [s |-> [s EXCEPT !.conns[c].pongTimer = Undefined,
                               !.conns[c].waitingPong = FALSE,
                               !.conns[c].lastPing = now],
               stop |-> FALSE]
    ELSE IF p.type = "paint"
    THEN LET r == TryPaint(s, p)
         IN  [s |-> [r.s EXCEPT !.conns[c].sendBuffer = @ \o PaintResult(p.id, r.code)],
              stop |-> FALSE]
    ELSE IF p.type = "short"
    THEN [s |-> wsClose(s, c, 1011), stop |-> TRUE]
    ELSE [s |-> wsClose(s, c, 1002), stop |-> TRUE]

\* The decode switch where an unknown tag is skipped
HandlePacketSkipsUnknown(s, c, p, delay) ==
    IF p.type = "pong"
    THEN IF ~s.conns[c].waitingPong
         THEN [s |-> wsClose(s, c, 1002), stop |-> TRUE]
         ELSE [s |-> [s EXCEPT !.conns[c].pongTimer = Undefined,
                               !.conns[c].waitingPong = FALSE,
                               !.conns[c].lastPing = now,
                               !.conns[c].lostTimers =
                                   @ + (IF s.conns[c].pingTimer # Undefined THEN 1 ELSE 0),
                               !.conns[c].pingTimer = now + delay],
               stop |-> FALSE]
    ELSE IF p.type = "paint"
    THEN LET r == TryPaint(s, p)
         IN  [s |-> [r.s EXCEPT !.conns[c].sendBuffer = @ \o PaintResult(p.id, r.code)],
              stop |-> FALSE]
    ELSE IF p.type = "short"
    THEN [s |-> wsClose(s, c, 1011), stop |-> TRUE]
    ELSE [s |-> s, stop |-> FALSE]

\* The decode switch where a paint that is refused closes the socket
HandlePacketClosesOnRefusal(s, c, p, delay) ==
    IF p.type = "pong"
    THEN IF ~s.conns[c].waitingPong
         THEN [s |-> wsClose(s, c, 1002), stop |-> TRUE]
         ELSE [s |-> [s EXCEPT !.conns[c].pongTimer = Undefined,
                               !.conns[c].waitingPong = FALSE,
                               !.conns[c].lastPing = now,
                               !.conns[c].lostTimers =
                                   @ + (IF s.conns[c].pingTimer # Undefined THEN 1 ELSE 0),
                               !.conns[c].pingTimer = now + delay],
               stop |-> FALSE]
    ELSE IF p.type = "paint"
    THEN LET r == TryPaint(s, p)
         IN  IF r.code = SUCCESS
             THEN [s |-> [r.s EXCEPT !.conns[c].sendBuffer = @ \o PaintResult(p.id, r.code)],
                   stop |-> FALSE]
             ELSE [s |-> wsClose(r.s, c, 1008), stop |-> TRUE]
    ELSE IF p.type = "short"
    THEN [s |-> wsClose(s, c, 1011), stop |-> TRUE]
    ELSE [s |-> wsClose(s, c, 1002), stop |-> TRUE]

\* One packet of the decode loop (index.ts 434-532): the state after it and
\* whether the handler returned.  A pong draws the next ping delay.
HandlePacket(s, c, p, delay) ==
    IF p.type = "pong"
    THEN IF ~s.conns[c].waitingPong
         THEN [s |-> wsClose(s, c, 1002), stop |-> TRUE]
         ELSE [s |-> [s EXCEPT !.conns[c].pongTimer = Undefined,
                               !.conns[c].waitingPong = FALSE,
                               !.conns[c].lastPing = now,
                               !.conns[c].lostTimers =
                                   @ + (IF s.conns[c].pingTimer # Undefined THEN 1 ELSE 0),
                               !.conns[c].pingTimer = now + delay],
               stop |-> FALSE]
    ELSE IF p.type = "paint"
    THEN LET r == TryPaint(s, p)
         IN  [s |-> [r.s EXCEPT !.conns[c].sendBuffer = @ \o PaintResult(p.id, r.code)],
              stop |-> FALSE]
    ELSE IF p.type = "short"
    \* a paint tag with fewer than 30 bytes after it: DataView throws a
    \* RangeError before anything is written; the catch closes with 1011
    THEN [s |-> wsClose(s, c, 1011), stop |-> TRUE]
    ELSE [s |-> wsClose(s, c, 1002), stop |-> TRUE]

\* The reads of the 0xfe case (index.ts 470-493), as <<offset, bytes>> after
\* the tag, in the order they are made: x, y, r, g, b, the three uid bytes,
\* the 16 token bytes (new Uint8Array(msg.buffer, offset + 10, 16)), the id.
PaintReads ==
    <<<<0, 2>>, <<2, 2>>, <<4, 1>>, <<5, 1>>, <<6, 1>>, <<7, 1>>, <<8, 1>>, <<9, 1>>,
      <<10, 16>>, <<26, 4>>>>

\* Whether one of the reads throws a RangeError when n bytes follow the tag:
\* the DataView and the Uint8Array are views of the frame's own bytes.
ReadsThrow(n) ==
    \E k \in 1 .. Len(PaintReads) : PaintReads[k][1] + PaintReads[k][2] > n

\* The kind of the packet at the offset of the decode loop, from its tag
\* byte and the number of bytes of the frame that remain, the tag included.
PacketKind(tag, remaining) ==
    IF tag = 251 THEN "pong"
    ELSE IF tag = 254 THEN (IF ReadsThrow(remaining - 1) THEN "short" ELSE "paint")
    ELSE "unknown"

\* The decode loop that handles the first packet of a frame only
DecodeLoopFirstOnly(s, c, frame, delay) ==
    IF frame = <<>> THEN s
    ELSE HandlePacket(s, c, Head(frame), delay).s

RECURSIVE DecodeLoop(_, _, _, _)
DecodeLoop(s, c, frame, delay) ==
    IF frame = <<>> THEN s
    ELSE LET r == HandlePacket(s, c, Head(frame), delay)
         IN  IF r.stop THEN r.s
             ELSE DecodeLoop(r.s, c, Tail(frame), delay)

\* The history of a socket's packets: the arrival instants of its latest
\* maxPacketPerSecond + 1 packets, after n more have arrived now.
Logged(log, n) ==
    LET all == log \o [k \in 1 .. n |-> now]
    IN  IF Len(all) <= maxPacketPerSecond + 1 THEN all
        ELSE SubSeq(all, Len(all) - maxPacketPerSecond, Len(all))

\* websocket.message that decodes the frame before it counts it
messageCountsAfterDecode(s, c, frame, delay) ==
    LET d == DecodeLoop(s, c, frame, delay)
        reset == now - d.conns[c].lastPacketCountReset >= RateWindowMs
        s1 == [d EXCEPT !.conns[c].packetsReceived = (IF reset THEN 0 ELSE @) + 1,
                        !.conns[c].lastPacketCountReset = IF reset THEN now ELSE @,
                        !.packetLog[c] = Logged(@, Len(frame))]
    IN  IF s1.conns[c].packetsReceived > maxPacketPerSecond
        THEN RateLimitExceeded(s1, c)
        ELSE s1

\* websocket.message(ws, msg) on an open socket: the packet-rate window,
\* then the decode loop.
message(s, c, frame, delay) ==
    LET reset == now - s.conns[c].lastPacketCountReset >= RateWindowMs
        s1 == [s EXCEPT !.conns[c].packetsReceived = (IF reset THEN 0 ELSE @) + 1,
                        !.conns[c].lastPacketCountReset = IF reset THEN now ELSE @,
                        !.packetLog[c] = Logged(@, Len(frame))]
    IN  IF s1.conns[c].packetsReceived > maxPacketPerSecond
        THEN RateLimitExceeded(s1, c)
        ELSE DecodeLoop(s1, c, frame, delay)

\* websocket.message(ws, msg) for a frame on any socket: the handler
\* returns at once unless ws.readyState is 1 (index.ts 394).
messageHandler(s, c, frame, delay) ==
    IF s.conns[c].state # "open" THEN s ELSE message(s, c, frame, delay)

\* websocket.open(ws) for a new socket c of ip
open(s, c, ip, delay) ==
    LET s0 == [s EXCEPT !.conns[c] = [NoConn EXCEPT !.state = "open", !.ip = ip,
                                             !.connectedAt = now]]
        ban == isBanned(s0.bannedIPs, ip)
        s1 == [s0 EXCEPT !.bannedIPs = ban.map]
    IN  IF ban.banned THEN wsClose(s1, c, 1008)
        ELSE IF maxWebSocketPerIP > 0 /\ Len(s1.ipConnections[ip]) >= maxWebSocketPerIP
        THEN LET s2 == banIP(s1, ip)
                 s3 == [CloseEach(s2, ip, 1, 1008) EXCEPT !.ipConnections[ip] = <<>>]
             IN  wsClose(s3, c, 1008)
        ELSE [s1 EXCEPT !.ipConnections[ip] = Append(@, c),
                        !.webSocketConnectionCount = @ + 1,
                        !.conns[c].subscribed = TRUE,
                        !.conns[c].lastPing = now,
                        !.conns[c].packetsReceived = 0,
                        !.conns[c].lastPacketCountReset = now,
                        !.conns[c].pingTimer = now + delay]

\* sendPing that starts no pong deadline
sendPingNoDeadline(s, c) ==
    IF s.conns[c].waitingPong THEN wsClose(s, c, 1002)
    ELSE [s EXCEPT !.conns[c].waitingPong = TRUE,
                   !.conns[c].sendBuffer = Append(@, 252)]

\* sendPing(ws)
sendPing(s, c) ==
    IF s.conns[c].waitingPong THEN wsClose(s, c, 1002)
    ELSE [s EXCEPT !.conns[c].waitingPong = TRUE,
                   !.conns[c].sendBuffer = Append(@, 252),
                   !.conns[c].lostTimers =
                       @ + (IF s.conns[c].pongTimer # Undefined THEN 1 ELSE 0),
                   !.conns[c].pongTimer = now + PongTimeoutMs]

\* the pong deadline's callback (index.ts 744-751)
pongTimeout(s, c) ==
    IF s.conns[c].waitingPong THEN wsClose(s, c, 1001) ELSE s

(***************************************************************************)
(* The state the handlers work on, and the actions.                        *)
(***************************************************************************)
Cur == [pixelView |-> pixelView, dirtyFlags |-> dirtyFlags, dirtyList |-> dirtyList,
        written |-> written, lastSet |-> lastSet,
        lastPaintTime |-> lastPaintTime, successLog |-> successLog,
        bannedIPs |-> bannedIPs, ipConnections |-> ipConnections, conns |-> conns,
        packetLog |-> packetLog,
        webSocketConnectionCount |-> webSocketConnectionCount]

Commit(s) ==
    /\ pixelView' = s.pixelView
    /\ dirtyFlags' = s.dirtyFlags
    /\ dirtyList' = s.dirtyList
    /\ written' = s.written
    /\ lastSet' = s.lastSet
    /\ lastPaintTime' = s.lastPaintTime
    /\ successLog' = s.successLog
    /\ bannedIPs' = s.bannedIPs
    /\ ipConnections' = s.ipConnections
    /\ conns' = s.conns
    /\ packetLog' = s.packetLog
    /\ webSocketConnectionCount' = s.webSocketConnectionCount
    /\ UNCHANGED storeVars

\* The memory of a process that has just been constructed without a
\* database, or that is not running.
FreshMemory ==
    [pixelView |-> initializeBoard,
     dirtyFlags |-> [p \in Pixels |-> FALSE],
     dirtyList |-> <<>>,
     tokens |-> [t \in TokenSpace |-> Undefined],
     pendingGen |-> [u \in Uids |-> 0],
     lastPaintTime |-> [u \in Uids |-> Undefined],
     bannedUIDs |-> {},
     bannedIPs |-> [ip \in IPs |-> Undefined],
     ipConnections |-> [ip \in IPs |-> <<>>],
     nextConnId |-> 1,
     conns |-> [c \in ConnIds |-> NoConn],
     issued |-> [u \in Uids |-> <<>>],
     successLog |-> [u \in Uids |-> <<>>],
     written |-> [xy \in Coords |-> 0],
     lastSet |-> [xy \in Coords |-> NoColor],
     packetLog |-> [c \in ConnIds |-> <<>>],
     webSocketConnectionCount |-> 0,
     board |-> [width |-> width, height |-> height],
     tokenReply |-> [u \in Uids |-> [token |-> Undefined, error |-> NoError]]]

NoFile == [exists |-> FALSE, rows |-> <<>>]

\* The server is up, constructed without a database (useDB defaults to
\* false).
Init ==
    /\ now = StartTime
    /\ pixelView = FreshMemory.pixelView
    /\ dirtyFlags = FreshMemory.dirtyFlags
    /\ dirtyList = FreshMemory.dirtyList
    /\ tokens = FreshMemory.tokens
    /\ nextToken = 1
    /\ pendingGen = FreshMemory.pendingGen
    /\ lastPaintTime = FreshMemory.lastPaintTime
    /\ bannedUIDs = FreshMemory.bannedUIDs
    /\ bannedIPs = FreshMemory.bannedIPs
    /\ ipConnections = FreshMemory.ipConnections
    /\ nextConnId = FreshMemory.nextConnId
    /\ conns = FreshMemory.conns
    /\ issued = FreshMemory.issued
    /\ successLog = FreshMemory.successLog
    /\ written = FreshMemory.written
    /\ lastSet = FreshMemory.lastSet
    /\ packetLog = FreshMemory.packetLog
    /\ webSocketConnectionCount = FreshMemory.webSocketConnectionCount
    /\ board = FreshMemory.board
    /\ tokenReply = FreshMemory.tokenReply
    /\ phase = "run"
    /\ useDB = FALSE
    /\ storage = EmptyStorage
    /\ legacy = NoFile
    /\ migrating = FALSE

\* The process is not running yet; data.db holds st and the legacy file is
\* file.
InitOff(st, file) ==
    /\ now = StartTime
    /\ pixelView = FreshMemory.pixelView
    /\ dirtyFlags = FreshMemory.dirtyFlags
    /\ dirtyList = FreshMemory.dirtyList
    /\ tokens = FreshMemory.tokens
    /\ nextToken = 1
    /\ pendingGen = FreshMemory.pendingGen
    /\ lastPaintTime = FreshMemory.lastPaintTime
    /\ bannedUIDs = FreshMemory.bannedUIDs
    /\ bannedIPs = FreshMemory.bannedIPs
    /\ ipConnections = FreshMemory.ipConnections
    /\ nextConnId = FreshMemory.nextConnId
    /\ conns = FreshMemory.conns
    /\ issued = FreshMemory.issued
    /\ successLog = FreshMemory.successLog
    /\ written = FreshMemory.written
    /\ lastSet = FreshMemory.lastSet
    /\ packetLog = FreshMemory.packetLog
    /\ webSocketConnectionCount = FreshMemory.webSocketConnectionCount
    /\ board = FreshMemory.board
    /\ tokenReply = FreshMemory.tokenReply
    /\ phase = "off"
    /\ useDB = TRUE
    /\ storage = st
    /\ legacy = file
    /\ migrating = FALSE

\* The process ends: its memory is gone; data.db is left holding st.
Stop(st) ==
    /\ phase = "run"
    /\ phase' = "off"
    /\ storage' = st
    /\ pixelView' = FreshMemory.pixelView
    /\ dirtyFlags' = FreshMemory.dirtyFlags
    /\ dirtyList' = FreshMemory.dirtyList
    /\ tokens' = FreshMemory.tokens
    /\ pendingGen' = FreshMemory.pendingGen
    /\ lastPaintTime' = FreshMemory.lastPaintTime
    /\ bannedUIDs' = FreshMemory.bannedUIDs
    /\ bannedIPs' = FreshMemory.bannedIPs
    /\ ipConnections' = FreshMemory.ipConnections
    /\ nextConnId' = FreshMemory.nextConnId
    /\ conns' = FreshMemory.conns
    /\ issued' = FreshMemory.issued
    /\ successLog' = FreshMemory.successLog
    /\ written' = FreshMemory.written
    /\ lastSet' = FreshMemory.lastSet
    /\ packetLog' = FreshMemory.packetLog
    /\ webSocketConnectionCount' = FreshMemory.webSocketConnectionCount
    /\ board' = FreshMemory.board
    /\ tokenReply' = FreshMemory.tokenReply
    /\ migrating' = FALSE
    /\ UNCHANGED <<now, nextToken, useDB, legacy>>

\* The process starts (index.ts 552-559): the constructor runs; DBManager's
\* init() is left suspended in its first await.  An exception of the
\* constructor ends the process.
Start(clearBoard) ==
    LET c == constructor(storage, useDB, clearBoard)
    IN  /\ phase = "off"
        /\ IF c.ok
           THEN /\ phase' = "run"
                /\ pixelView' = c.pixelView
                /\ board' = c.board
                /\ tokens' = c.tokens
                /\ migrating' = useDB
           ELSE /\ phase' = "failed"
                /\ UNCHANGED <<pixelView, board, tokens, migrating>>
        /\ UNCHANGED <<now, dirtyFlags, dirtyList, written, lastSet, nextToken,
                       pendingGen, issued, coolVars, bannedUIDs, connVars,
                       useDB, storage, legacy, tokenReply>>

\* DBManager.init() resumes (part_000 231-235): the legacy tokens are
\* imported and the duplicates cleaned up.
Migrate ==
    /\ phase = "run"
    /\ migrating
    /\ migrating' = FALSE
    /\ storage' = [storage EXCEPT !.tokens = init(@, legacy)]
    /\ UNCHANGED <<now, boardVars, tokenVars, coolVars, bannedUIDs, connVars,
                   phase, useDB, board, legacy, tokenReply>>

\* The auto-save interval fires (paintboard.ts 460, 590-595).
SaveToDb ==
    /\ phase = "run"
    /\ useDB
    /\ storage' = saveBoard(storage, pixelView, board.width, board.height)
    /\ UNCHANGED <<now, boardVars, tokenVars, coolVars, bannedUIDs, connVars,
                   phase, useDB, board, legacy, migrating, tokenReply>>

\* SIGINT or SIGTERM (index.ts 619-626): shutdown() saves the board and the
\* process exits.
Shutdown ==
    Stop(IF useDB THEN saveBoard(storage, pixelView, board.width, board.height)
         ELSE storage)

\* The process is killed between two handlers: nothing is saved.
Crash == Stop(storage)

\* The process is killed inside generateToken, between deleteTokensByUid and
\* saveToken, for a call of uid whose validatePaste succeeded.
CrashInIssue(uid) ==
    /\ pendingGen[uid] > 0
    /\ useDB
    /\ Stop([storage EXCEPT !.tokens = storeToken(@, uid, nextToken)[2]])

\* The timers that are armed, as the instants they are due.
ArmedTimers ==
    ({conns[c].pingTimer : c \in ConnIds} \cup {conns[c].pongTimer : c \in ConnIds})
        \ {Undefined}

\* The clock moves on by d ms; a timer fires when it is due.
Advance(d) ==
    /\ now + d <= EndTime
    /\ \A t \in ArmedTimers : now + d <= t
    /\ now' = now + d
    /\ UNCHANGED <<boardVars, tokenVars, coolVars, bannedUIDs, connVars, storeVars>>

\* The clock moves on by d ms over the longer horizon of the heartbeat.
Elapse(d) ==
    /\ now + d <= HeartbeatEnd
    /\ \A t \in ArmedTimers : now + d <= t
    /\ now' = now + d
    /\ UNCHANGED <<boardVars, tokenVars, coolVars, bannedUIDs, connVars, storeVars>>

\* The clock moves on to the next instant a timer is due.
ElapseToTimer == \E d \in {1000, 3000, 29999} : now + d \in ArmedTimers /\ Elapse(d)

\* fetch for /api/paintboard/ws (index.ts 133-179), then websocket.open:
\* a banned IP gets 429 and no socket.
WsConnect(ip, delay) ==
    LET ban == isBanned(bannedIPs, ip)
    IN  IF ban.banned
        THEN UNCHANGED vars
        ELSE /\ nextConnId <= MaxConns
             /\ nextConnId' = nextConnId + 1
             /\ Commit(open([Cur EXCEPT !.bannedIPs = ban.map], nextConnId, ip, delay))
             /\ UNCHANGED <<now, tokenVars, bannedUIDs>>

\* websocket.message on an open socket (readyState 1).  The model stops a
\* socket's frames while its send buffer is full (a tick empties it) and
\* once its packet counter has passed the limit in the current window.
Message(c, frame, delay) ==
    /\ conns[c].state = "open"
    /\ Len(conns[c].sendBuffer) + 6 * Len(frame) <= MaxSendBuffer
    /\ \/ now - conns[c].lastPacketCountReset >= RateWindowMs
       \/ conns[c].packetsReceived <= maxPacketPerSecond
    /\ Commit(message(Cur, c, frame, delay))
    /\ UNCHANGED <<now, tokenVars, bannedUIDs, nextConnId>>

\* A frame that was under way when the socket was closed is handed to
\* websocket.message.
LateMessage(c, frame, delay) ==
    /\ conns[c].state = "closed"
    /\ Commit(messageHandler(Cur, c, frame, delay))
    /\ UNCHANGED <<now, tokenVars, bannedUIDs, nextConnId>>

\* The peer closes the socket: websocket.close runs.
ClientClose(c) ==
    /\ conns[c].state = "open"
    /\ Commit(wsClose(Cur, c, 1000))
    /\ UNCHANGED <<now, tokenVars, bannedUIDs, nextConnId>>

\* The ping timer of c fires.
PingTimer(c) ==
    /\ conns[c].pingTimer # Undefined
    /\ now >= conns[c].pingTimer
    /\ Commit(sendPing([Cur EXCEPT !.conns[c].pingTimer = Undefined], c))
    /\ UNCHANGED <<now, tokenVars, bannedUIDs, nextConnId>>

\* The pong deadline of c fires.
PongTimer(c) ==
    /\ conns[c].pongTimer # Undefined
    /\ now >= conns[c].pongTimer
    /\ Commit(pongTimeout([Cur EXCEPT !.conns[c].pongTimer = Undefined], c))
    /\ UNCHANGED <<now, tokenVars, bannedUIDs, nextConnId>>

Registered == UNION {SeqToSet(ipConnections[ip]) : ip \in IPs}

\* The tick interval (index.ts 568-583): each registered socket's send
\* buffer is flushed and, when not empty, sent; then flushUpdates publishes
\* the batch to every subscribed socket (onColorUpdate, index.ts 562-565).
Tick ==
    LET f == flushUpdates(Cur)
    IN  /\ Commit([f.s EXCEPT !.conns = [c \in ConnIds |->
                IF c \in Registered THEN [conns[c] EXCEPT !.sendBuffer = <<>>]
                ELSE conns[c]]])
        /\ UNCHANGED <<now, tokenVars, bannedUIDs, nextConnId>>

\* The tick's writes where the batch goes to the registered sockets only
TickWritesRegisteredOnly ==
    LET batch == flushUpdates(Cur).batch
    IN  [c \in ConnIds |->
            (IF c \in Registered /\ conns[c].sendBuffer # <<>>
             THEN <<conns[c].sendBuffer>> ELSE <<>>)
            \o (IF c \in Registered /\ batch # <<>> THEN <<batch>> ELSE <<>>)]

\* The socket writes the tick makes to each socket, in order: ws.send of
\* the send buffer when the socket is registered and its buffer is not empty
\* (index.ts 577-582), then the batch of flushUpdates, which the listener
\* hands to server.publish('paint', ...) for every subscribed socket
\* (index.ts 562-565).
TickWrites ==
    LET batch == flushUpdates(Cur).batch
    IN  [c \in ConnIds |->
            (IF c \in Registered /\ conns[c].sendBuffer # <<>>
             THEN <<conns[c].sendBuffer>> ELSE <<>>)
            \o (IF conns[c].subscribed /\ batch # <<>> THEN <<batch>> ELSE <<>>)]

RECURSIVE Sum(_, _)
Sum(f, S) == IF S = {} THEN 0
             ELSE LET x == CHOOSE x \in S : TRUE IN f[x] + Sum(f, S \ {x})

\* The generateToken calls in flight.
Pending == Sum(pendingGen, Uids)

\* fetch for POST /api/auth/gettoken: handleTokenRequest calls generateToken,
\* which suspends in validatePaste (config.maxAllowedUID is not set).
HttpGetToken(ip, uid) ==
    LET ban == isBanned(bannedIPs, ip)
    IN  IF ban.banned
        THEN UNCHANGED vars
        ELSE /\ Pending < MaxPending
             /\ pendingGen' = [pendingGen EXCEPT ![uid] = @ + 1]
             /\ bannedIPs' = ban.map
             /\ UNCHANGED <<now, boardVars, tokens, nextToken, issued, coolVars,
                            bannedUIDs, ipConnections, nextConnId, conns, packetLog,
                            webSocketConnectionCount,
                            storeVars>>

\* generateToken with the old tokens of the uid left in the registry
generateTokenKeepOld(reg, uid, token) == [reg EXCEPT ![token] = uid]

\* generateToken after validatePaste succeeded (paintboard.ts 569-585): every
\* token of the uid is deleted, then the new one is set.
generateToken(reg, uid, token) ==
    [t \in DOMAIN reg |-> IF t = token THEN uid
                          ELSE IF reg[t] = uid THEN Undefined
                          ELSE reg[t]]

\* generateToken resumes after await validatePaste, which gave validation
\* (paintboard.ts 569-587); token is the next randomUUID().  The registry,
\* the rows of the tokens table and what the call returns.
generateTokenResumed(reg, rows, db, uid, validation, token) ==
    IF validation.success
    THEN [tokens |-> generateToken(reg, uid, token),
          rows |-> IF db THEN storeToken(rows, uid, token)[3] ELSE rows,
          result |-> [token |-> token, error |-> NoError]]
    ELSE [tokens |-> reg, rows |-> rows,
          result |-> [token |-> Undefined, error |-> validation.error]]

\* One suspended generateToken call of uid resumes with validation.
GenerateTokenResumes(uid, validation) ==
    LET g == generateTokenResumed(tokens, storage.tokens, useDB, uid, validation, nextToken)
    IN  /\ pendingGen[uid] > 0
        /\ pendingGen' = [pendingGen EXCEPT ![uid] = @ - 1]
        /\ validation.success => nextToken <= MaxTokens
        /\ tokens' = g.tokens
        /\ storage' = [storage EXCEPT !.tokens = g.rows]
        /\ issued' = IF validation.success THEN [issued EXCEPT ![uid] = Append(@, nextToken)]
                     ELSE issued
        /\ nextToken' = IF validation.success THEN nextToken + 1 ELSE nextToken
        /\ UNCHANGED <<now, boardVars, coolVars, bannedUIDs, connVars,
                       phase, useDB, board, legacy, migrating>>

\* validatePaste resolves for one suspended generateToken call of uid.
PasteValidated(uid, success) ==
    /\ GenerateTokenResumes(uid, [success |-> success, error |-> NoError])
    /\ UNCHANGED tokenReply

\* The paste service answers resp to one suspended generateToken call of
\* uid; the history records what the call returns.
PasteAnswered(uid, resp) ==
    LET v == validatePaste(uid, resp)
    IN  /\ GenerateTokenResumes(uid, v)
        /\ tokenReply' = [tokenReply EXCEPT ![uid] =
               generateTokenResumed(tokens, storage.tokens, useDB, uid, v, nextToken).result]

\* config.botToken: configSchema is a strictObject with no botToken key
\* (the key is banToken), so the property is always undefined.
configBotToken == "undefined"

\* config.banToken, the admin token the configuration file sets.
configBanToken == "admin"

\* The routes /api/root/banuid and /api/root/unbanuid (index.ts 254-289) for
\* a body {token, uid}: the status of the answer and the set they leave.  A
\* body without a token has the token "undefined".
banUidRoute(banned, bodyToken, uid, ban) ==
    IF bodyToken # configBotToken
    THEN [status |-> 401, bannedUIDs |-> banned]
    ELSE [status |-> 200,
          bannedUIDs |-> IF ban THEN banned \cup {uid} ELSE banned \ {uid}]

\* fetch for POST /api/root/banuid and /api/root/unbanuid (index.ts 254-289)
HttpBanUid(ip, bodyToken, uid, ban) ==
    LET b == isBanned(bannedIPs, ip)
    IN  IF b.banned
        THEN UNCHANGED vars
        ELSE /\ bannedIPs' = b.map
             /\ bannedUIDs' = banUidRoute(bannedUIDs, bodyToken, uid, ban).bannedUIDs
             /\ UNCHANGED <<now, boardVars, tokenVars, coolVars, ipConnections,
                            nextConnId, conns, packetLog,
                            webSocketConnectionCount, storeVars>>

\* The routes Bun.serve answers from its `static` table (index.ts 117-133):
\* a request for one of them gets the prepared Response and the fetch
\* callback is not called.
StaticRoutes == {"/api", "/dev/frontend"}

\* The other paths a request can name: the upgrade path, three API routes
\* and a path no route matches.
FetchRoutes == {"/api/paintboard/ws", "/api/paintboard/getboard",
                "/api/auth/gettoken", "/api/root/banuid", "/nowhere"}

\* The ban check that opens the fetch callback (index.ts 134-147), at the
\* instant t with the ban table banned: 429 with Retry-After, the seconds to
\* the expiry rounded up; or the request goes on to the route handlers
\* (status 0 stands for whatever they answer; none of them answers 429).
fetchBanCheck(banned, ip, t) ==
    LET banUntil == banned[ip]
    IN  IF banUntil # Undefined /\ banUntil # 0 /\ t < banUntil
        THEN [route |-> "banned", status |-> 429,
              retryAfter |-> (banUntil - t + 999) \div 1000]
        ELSE [route |-> "handler", status |-> 0, retryAfter |-> Undefined]

\* The answer to an HTTP request of ip for path at the instant t.
HttpAnswer(banned, ip, path, t) ==
    IF path \in StaticRoutes
    THEN [route |-> "static", status |-> 200, retryAfter |-> Undefined]
    ELSE fetchBanCheck(banned, ip, t)

(***************************************************************************)
(* Inputs and specifications.                                              *)
(***************************************************************************)
InBounds == Coords
OutOfBounds == {<<2, 0>>, <<0, 2>>}
Colors == {<<1, 2, 3>>, <<255, 0, 0>>}
BodyTokens == {"undefined", "admin", "wrong"}

PaintPackets(coords, colors, tokenIds) ==
    {[type |-> "paint", x |-> xy[1], y |-> xy[2], color |-> col, uid |-> u,
      token |-> t, id |-> 7] :
        xy \in coords, col \in colors, u \in Uids, t \in tokenIds}

OtherPackets == {[type |-> "pong"], [type |-> "short"], [type |-> "unknown"]}

\* Every paint packet the model sends (token 0 is a token never issued).
AllPaints == PaintPackets(InBounds \cup OutOfBounds, Colors, 0 .. MaxTokens)

\* Cooldown: uid 1 gets and rotates tokens and paints on one socket while
\* the clock advances.
NextCooldown ==
    \/ \E d \in {500, 1000} : Advance(d)
    \/ Tick
    \/ \E ok \in BOOLEAN : PasteValidated(1, ok)
    \/ HttpGetToken("ip1", 1)
    \/ nextConnId <= 1 /\ WsConnect("ip1", 29999)
    \/ \E p \in PaintPackets({<<0, 0>>, <<2, 0>>}, {<<1, 2, 3>>}, 0 .. MaxTokens) :
            Message(1, <<p>>, 29999)

SpecCooldown == Init /\ [][NextCooldown]_vars

\* Authorisation: both uids get and rotate tokens, uid 2 is banned and
\* unbanned, and paints with every token are made on one socket.
NextAuth ==
    \/ Advance(2000)
    \/ Tick
    \/ \E u \in Uids, ok \in BOOLEAN : PasteValidated(u, ok)
    \/ \E u \in Uids : HttpGetToken("ip1", u)
    \/ \E t \in BodyTokens, b \in BOOLEAN : HttpBanUid("ip1", t, 2, b)
    \/ nextConnId <= 1 /\ WsConnect("ip1", 29999)
    \/ \E p \in PaintPackets({<<0, 0>>, <<2, 0>>}, {<<1, 2, 3>>}, 0 .. MaxTokens) :
            Message(1, <<p>>, 29999)

SpecAuth == Init /\ [][NextAuth]_vars

\* The board: both uids hold a token and paint every pixel in two colours
\* on one socket, between ticks, while the clock advances.
NextBoard ==
    \/ Advance(1000)
    \/ Tick
    \/ \E u \in Uids : PasteValidated(u, TRUE)
    \/ \E u \in Uids : Pending = 0 /\ issued[u] = <<>> /\ HttpGetToken("ip1", u)
    \/ nextConnId <= 1 /\ WsConnect("ip1", 29999)
    \/ \E p \in PaintPackets({<<0, 0>>, <<1, 0>>, <<0, 1>>, <<2, 0>>}, Colors, 1 .. 2) :
            tokens[p.token] = p.uid /\ Message(1, <<p>>, 29999)

SpecBoard == Init /\ [][NextBoard]_vars

\* Sockets: one IP opens two sockets and sends frames on them until the
\* packet rate is exceeded.
NextConn ==
    \/ Advance(1000)
    \/ Tick
    \/ nextConnId <= 2 /\ WsConnect("ip1", 29999)
    \/ \E c \in ConnIds : ClientClose(c)
    \/ \E c \in ConnIds, p \in OtherPackets \cup PaintPackets({<<0, 0>>}, {<<1, 2, 3>>}, {0}) :
            Message(c, <<p>>, 29999)
    \/ \E c \in ConnIds : Message(c, <<>>, 29999)

SpecConn == Init /\ [][NextConn]_vars

\* The packet rate: one socket sends single-packet frames while the clock
\* advances in half seconds.
NextRate ==
    \/ Advance(500)
    \/ Tick
    \/ nextConnId <= 1 /\ WsConnect("ip1", 29999)
    \/ \E p \in {[type |-> "unknown"]} \cup PaintPackets({<<0, 0>>}, {<<1, 2, 3>>}, {0}) :
            Message(1, <<p>>, 29999)

SpecRate == Init /\ [][NextRate]_vars

\* The next ping delay, Math.floor(Math.random() * 29000) + 1000: its least
\* and its greatest value.
PingDelays == {1000, 29999}

\* The frames of the protocol runs: pongs, paints of uid 1 in and out of
\* bounds with token 1 and with a token never issued, an unknown tag.
Pong == [type |-> "pong"]
Unknown == [type |-> "unknown"]
ProtoPaints == {q \in PaintPackets({<<0, 0>>, <<2, 0>>}, {<<1, 2, 3>>}, {0, 1}) : q.uid = 1}
ProtoFrames ==
    {<<Pong>>, <<Pong, Pong>>} \cup {<<Unknown>>}
      \cup {<<Pong, p>> : p \in ProtoPaints}
      \cup {<<Unknown, p>> : p \in ProtoPaints}
      \cup {<<p, [q EXCEPT !.id = 258]>> : p \in ProtoPaints, q \in ProtoPaints}

\* The protocol: one socket, its heartbeat timers, and frames of several
\* packets, while uid 1 holds a token.  The clock moves from timer to
\* timer; the shortest ping delay is drawn in the first seconds only and
\* frames with paints stop after the second SUCCESS.
NextProto ==
    \/ ElapseToTimer
    \/ Tick
    \/ PasteValidated(1, TRUE)
    \/ Pending = 0 /\ issued[1] = <<>> /\ HttpGetToken("ip1", 1)
    \/ \E delay \in PingDelays : nextConnId <= 1 /\ WsConnect("ip1", delay)
    \/ PingTimer(1)
    \/ PongTimer(1)
    \/ \E frame \in ProtoFrames, delay \in PingDelays :
            /\ delay = 1000 => now <= EndTime
            /\ Len(frame) > 1 => Len(successLog[1]) < 2
            /\ Message(1, frame, delay)

SpecProto == Init /\ [][NextProto]_vars

\* The same runs where the clock keeps moving and a timer that is due fires.
SpecProtoFair ==
    /\ Init /\ [][NextProto]_vars
    /\ WF_vars(ElapseToTimer)
    /\ WF_vars(PingTimer(1))
    /\ WF_vars(PongTimer(1))

\* A client that answers: the ping of socket c has been sent to it by a tick
\* and its deadline has not come.
PingReceived(c) ==
    /\ conns[c].state = "open"
    /\ conns[c].waitingPong
    /\ 252 \notin SeqToSet(conns[c].sendBuffer)
    /\ now < conns[c].pongTimer

\* The heartbeat with clients that answer every ping with one pong before
\* its deadline: two sockets, whose only frames are these pongs; the clock
\* does not reach a deadline while the ping is unanswered.
NextPolite ==
    \/ \E d \in {1000, 3000, 29999} :
            /\ now + d \in ArmedTimers \/ d = 1000
            /\ \A c \in ConnIds : conns[c].waitingPong => now + d < conns[c].pongTimer
            /\ Elapse(d)
    \/ Tick
    \/ \E delay \in PingDelays : nextConnId <= 2 /\ WsConnect("ip1", delay)
    \/ \E c \in ConnIds : PingTimer(c)
    \/ \E c \in ConnIds, delay \in PingDelays :
            /\ delay = 1000 => now <= EndTime
            /\ PingReceived(c)
            /\ Message(c, <<Pong>>, delay)

SpecPolite == Init /\ [][NextPolite]_vars

\* The per-IP socket limit: one IP opens sockets, up to one more than
\* maxWebSocketPerIP at a time, and closes them.
NextLimit ==
    \/ \E d \in {500, 1000} : Advance(d)
    \/ Tick
    \/ WsConnect("ip1", 29999)
    \/ \E c \in ConnIds : ClientClose(c)
    \/ \E c \in ConnIds, p \in PaintPackets({<<0, 0>>}, {<<1, 2, 3>>}, {0}) :
            conns[c].packetsReceived < maxPacketPerSecond /\ Message(c, <<p>>, 29999)

SpecLimit == Init /\ [][NextLimit]_vars

\* The broadcast: uid 1 holds a token and paints two pixels on any of the
\* sockets one IP opens and closes, past the per-IP limit and the packet
\* rate, between ticks.
NextCast ==
    \/ Advance(1000)
    \/ Tick
    \/ PasteValidated(1, TRUE)
    \/ Pending = 0 /\ issued[1] = <<>> /\ HttpGetToken("ip1", 1)
    \/ WsConnect("ip1", 29999)
    \/ \E c \in ConnIds : ClientClose(c)
    \/ \E c \in ConnIds, p \in PaintPackets({<<0, 0>>, <<1, 0>>}, {<<1, 2, 3>>}, {1}) :
            p.uid = 1 /\ tokens[1] = 1 /\ Message(c, <<p>>, 29999)

SpecCast == Init /\ [][NextCast]_vars

\* The paints of the refusal runs: either uid, in and out of bounds, with a
\* token never issued and with the tokens 1 and 2; and what follows one in
\* its frame: nothing, or a paint of (1,0) by uid 1 with token 1.
RefusalPaints == PaintPackets({<<0, 0>>, <<2, 0>>}, {<<1, 2, 3>>}, 0 .. 2)
RefusalRests ==
    {<<>>, <<[type |-> "paint", x |-> 1, y |-> 0, color |-> <<255, 0, 0>>, uid |-> 1,
              token |-> 1, id |-> 258]>>}

\* Refused paints: both uids get one token each, uid 2 is banned and
\* unbanned, and one socket sends frames of one or two paints while the
\* clock advances.
NextRefusal ==
    \/ Advance(1000)
    \/ Tick
    \/ \E u \in Uids : PasteValidated(u, TRUE)
    \/ \E u \in Uids : Pending = 0 /\ issued[u] = <<>> /\ HttpGetToken("ip1", u)
    \/ \E t \in BodyTokens, b \in BOOLEAN : HttpBanUid("ip1", t, 2, b)
    \/ nextConnId <= 1 /\ WsConnect("ip1", 29999)
    \/ \E p \in RefusalPaints, rest \in RefusalRests : Message(1, <<p>> \o rest, 29999)

SpecRefusal == Init /\ [][NextRefusal]_vars

\* A board row of data.db that an earlier run with width w and height h
\* saved, every byte 7.
StoredRow(w, h) == [width |-> w, height |-> h, pixels |-> [i \in 1 .. (w * h * 3) |-> 7]]

\* What board_data holds at the first start: nothing, a board of the
\* configured size, smaller boards, a board of another shape with as many
\* pixels, a larger board.
StoredBoards ==
    {<<>>, <<StoredRow(width, height)>>, <<StoredRow(1, height)>>, <<StoredRow(width, 1)>>,
     <<StoredRow(1, 1)>>, <<StoredRow(width * height, 1)>>, <<StoredRow(width + 1, height)>>}

\* The stored board: the server starts with a database, with clearBoard
\* set or not; uid 1 gets a token and paints on one socket; the board is
\* saved by the interval and at shutdown; the process is stopped or killed
\* and started again.
NextStore ==
    \/ \E clearBoard \in BOOLEAN : Start(clearBoard)
    \/ /\ phase = "run"
       /\ \/ Advance(1000)
          \/ Tick
          \/ Migrate
          \/ SaveToDb
          \/ Shutdown
          \/ Crash
          \/ PasteValidated(1, TRUE)
          \/ Pending = 0 /\ issued[1] = <<>> /\ storage.tokens = <<>> /\ HttpGetToken("ip1", 1)
          \/ nextConnId <= 1 /\ WsConnect("ip1", 29999)
          \/ \E p \in PaintPackets({<<0, 0>>, <<1, 0>>, <<0, 1>>}, {<<1, 2, 3>>}, TokenIds) :
                  p.uid = 1 /\ tokens[p.token] = 1 /\ Message(1, <<p>>, 29999)

SpecStore ==
    /\ \E row \in StoredBoards : InitOff([tokens |-> <<>>, board |-> row], NoFile)
    /\ [][NextStore]_vars

\* What ./liucang.db is: absent, or a file with one token of uid 1, with
\* two tokens of uid 1, with a token of each uid.
LegacyFiles ==
    {NoFile,
     [exists |-> TRUE, rows |-> <<[token |-> 8, uid |-> 1]>>],
     [exists |-> TRUE, rows |-> <<[token |-> 8, uid |-> 1], [token |-> 9, uid |-> 1]>>],
     [exists |-> TRUE, rows |-> <<[token |-> 8, uid |-> 1], [token |-> 9, uid |-> 2]>>]}

\* What the paste service answers: the HTTP status (0: fetch threw),
\* whether the body is JSON, and the document's code, paste uid (Undefined:
\* there is none) and paste text.
PasteResponses ==
    [status : {200, 404, 500, 0}, json : BOOLEAN, code : {200, 403},
     uid : Uids \cup {Undefined}, data : {validationPaste, "other"}]

\* The answer that passes every test for uid, and one answer for each test
\* that can fail.
GoodPaste(uid) ==
    [status |-> 200, json |-> TRUE, code |-> 200, uid |-> uid, data |-> validationPaste]
SomeResponses(uid) ==
    {GoodPaste(uid),
     [GoodPaste(uid) EXCEPT !.status = 404],
     [GoodPaste(uid) EXCEPT !.status = 500],
     [GoodPaste(uid) EXCEPT !.json = FALSE],
     [GoodPaste(uid) EXCEPT !.code = 403],
     [GoodPaste(uid) EXCEPT !.uid = Undefined],
     [GoodPaste(uid) EXCEPT !.data = "other"]}

\* A paint of (0,0) by uid with token.
PaintWith(token, uid) ==
    [type |-> "paint", x |-> 0, y |-> 0, color |-> <<1, 2, 3>>, uid |-> uid,
     token |-> token, id |-> 7]

\* The stored tokens: the server starts with an empty database next to a
\* legacy file or none; the import resumes at some point; uid 1 asks for
\* tokens, one request at a time, and the paste service answers; issued
\* and legacy tokens are used for paints on one socket, one between two
\* ticks; the process is killed, between handlers and inside
\* generateToken, and started again.
NextTokens ==
    \/ Start(TRUE)
    \/ /\ phase = "run"
       /\ \/ Tick
          \/ Migrate
          \/ Crash
          \/ CrashInIssue(1)
          \/ Pending = 0 /\ HttpGetToken("ip1", 1)
          \/ \E resp \in SomeResponses(1) : PasteAnswered(1, resp)
          \/ nextConnId <= 1 /\ WsConnect("ip1", 29999)
          \/ \E u \in Uids, t \in TokenIds \cup LegacyTokenIds :
                  conns[1].sendBuffer = <<>> /\ Message(1, <<PaintWith(t, u)>>, 29999)

SpecTokens ==
    /\ \E file \in LegacyFiles : InitOff(EmptyStorage, file)
    /\ [][NextTokens]_vars

\* A paint packet cut off by the end of the frame.
Short == [type |-> "short"]

\* Truncated frames: uid 1 holds a token; socket 1 sends only frames that
\* end inside a paint packet, with nothing or with a complete paint of
\* uid 1 before it; socket 2 sends complete paints.
NextBroken ==
    \/ Advance(1000)
    \/ Tick
    \/ PasteValidated(1, TRUE)
    \/ Pending = 0 /\ issued[1] = <<>> /\ HttpGetToken("ip1", 1)
    \/ nextConnId <= 2 /\ WsConnect("ip1", 29999)
    \/ \E pre \in {<<>>} \cup {<<p>> : p \in ProtoPaints} :
            Message(1, pre \o <<Short>>, 29999)
    \/ \E p \in ProtoPaints : Message(2, <<p>>, 29999)

SpecBroken == Init /\ [][NextBroken]_vars

\* The frames of the runs past the packet rate: a pong, a paint of (0,0) by
\* uid 1 with token 1, both.
DropFrames == {<<Pong>>, <<PaintWith(1, 1)>>, <<Pong, PaintWith(1, 1)>>}

\* Past the packet rate: uid 1 holds a token; one IP then opens two sockets
\* at once, whose first ping comes after a second; frames arrive faster than the
\* rate allows, until the second SUCCESS, and on sockets that were closed;
\* the clock moves from timer to timer in the first seconds.
NextDrop ==
    \/ now <= EndTime /\ ElapseToTimer
    \/ Tick
    \/ PasteValidated(1, TRUE)
    \/ Pending = 0 /\ issued[1] = <<>> /\ HttpGetToken("ip1", 1)
    \/ tokens[1] = 1 /\ now = StartTime /\ nextConnId <= 2 /\ WsConnect("ip1", 1000)
    \/ \E c \in ConnIds : PingTimer(c)
    \/ \E c \in ConnIds : PongTimer(c)
    \/ \E c \in ConnIds, frame \in DropFrames :
            Len(successLog[1]) < 2 /\ Message(c, frame, 29999)
    \/ \E c \in ConnIds, frame \in DropFrames : LateMessage(c, frame, 29999)

SpecDrop == Init /\ [][NextDrop]_vars

\* The frames of the heartbeat runs: a pong, an unknown tag, an empty frame.
HeartFrames == {<<Pong>>, <<Unknown>>, <<>>}

\* The heartbeat among every way a socket ends: in the first second one IP
\* opens sockets up to and past the per-IP limit; their ping timers and
\* pong deadlines fire; the clients send pongs, asked for or not, broken
\* frames, and frames past the packet rate; they close their sockets; the
\* clock moves from timer to timer, or by the longest ping delay and a
\* deadline when none is armed.
NextHeart ==
    \/ ElapseToTimer
    \/ \E d \in {3000, 29999} : ArmedTimers = {} /\ Elapse(d)
    \/ \E delay \in PingDelays : now = StartTime /\ WsConnect("ip1", delay)
    \/ \E c \in ConnIds : ClientClose(c)
    \/ \E c \in ConnIds : PingTimer(c)
    \/ \E c \in ConnIds : PongTimer(c)
    \/ \E c \in ConnIds, frame \in HeartFrames, delay \in PingDelays :
            /\ delay = 1000 => now <= StartTime + 1000
            /\ Message(c, frame, delay)

SpecHeart == Init /\ [][NextHeart]_vars

(***************************************************************************)
(* Claims.                                                                 *)
(***************************************************************************)
Last(q) == q[Len(q)]

\* The state a paint leaves and its result, from the present state.
Painted(p) == TryPaint(Cur, p)

\* The paint left the board, the dirty pixels and the cooldown table alone.
Untouched(r) ==
    /\ r.s.pixelView = pixelView
    /\ r.s.dirtyFlags = dirtyFlags
    /\ r.s.dirtyList = dirtyList
    /\ r.s.lastPaintTime = lastPaintTime

\* Some socket's send buffer holds the result packet of request 7 with code.
Answered(code) == \E c \in ConnIds : conns[c].sendBuffer = PaintResult(7, code)

(* C1: any two SUCCESS results of one uid were given at instants at least
   paintDelay ms apart, also when the uid's token was rotated in between
   (the cooldown is kept per uid). *)
C1_SuccessSpacing ==
    \A u \in Uids : \A i, j \in 1 .. Len(successLog[u]) :
        i < j => successLog[u][j][1] - successLog[u][i][1] >= paintDelay

\* uid 1 got SUCCESS twice, with two different tokens.
C1_Witness ==
    \E i, j \in 1 .. Len(successLog[1]) :
        i < j /\ successLog[1][i][2] # successLog[1][j][2]

(* C2: a paint by an unbanned uid with its valid token, less than paintDelay
   ms after the uid's previous SUCCESS, returns COOLING and changes neither
   the board bytes, nor the dirty pixels, nor the uid's cooldown entry. *)
C2_CoolingNoEffect ==
    \A p \in AllPaints :
        ( /\ p.uid \notin bannedUIDs
          /\ tokens[p.token] = p.uid
          /\ successLog[p.uid] # <<>>
          /\ now - Last(successLog[p.uid])[1] < paintDelay )
        => /\ Painted(p).code = COOLING
           /\ Untouched(Painted(p))

\* A COOLING result was given within the cooldown of uid 1's SUCCESS.
C2_Witness ==
    /\ Answered(COOLING)
    /\ successLog[1] # <<>>
    /\ now - Last(successLog[1])[1] < paintDelay
    /\ now > Last(successLog[1])[1]

(* C3: a paint that claims a banned uid returns NO_PERMISSION whatever its
   token, its coordinates and the cooldown state are, and changes nothing:
   the ban is tested before the token is looked up. *)
C3_BannedUidNoPermission ==
    \A p \in AllPaints :
        p.uid \in bannedUIDs
        => /\ Painted(p).code = NO_PERMISSION
           /\ Painted(p).s = Cur

\* A banned uid that holds a valid token was answered NO_PERMISSION.
C3_Witness ==
    /\ Answered(NO_PERMISSION)
    /\ 2 \in bannedUIDs
    /\ \E t \in TokenIds : tokens[t] = 2

(* C4: for an unbanned uid, a paint whose token is not in the registry, or is
   bound to another uid than the packet claims, returns INVALID_TOKEN and
   changes neither the board, nor the dirty pixels, nor the cooldown table. *)
C4_InvalidToken ==
    \A p \in AllPaints :
        (p.uid \notin bannedUIDs /\ tokens[p.token] # p.uid)
        => /\ Painted(p).code = INVALID_TOKEN
           /\ Untouched(Painted(p))

\* INVALID_TOKEN was answered while both uids hold a token and none is banned.
C4_Witness ==
    /\ Answered(INVALID_TOKEN)
    /\ bannedUIDs = {}
    /\ \A u \in Uids : \E t \in TokenIds : tokens[t] = u

(* C5: the cooldown entry of a uid is updated only by a paint that returns
   SUCCESS: it is the instant of the uid's last SUCCESS (no entry before the
   first), so a BAD_FORMAT paint leaves it alone. *)
C5_CooldownOnlyOnSuccess ==
    \A u \in Uids :
        lastPaintTime[u] = IF successLog[u] = <<>> THEN Undefined
                           ELSE Last(successLog[u])[1]

(* C7: the registry holds exactly one token for each uid that was issued
   one, the most recently issued, whatever the order in which overlapping
   generateToken calls completed; a paint with an earlier token of the uid
   returns INVALID_TOKEN and a paint with the newest one, in bounds and out
   of cooldown, returns SUCCESS. *)
C7_OneTokenPerUid ==
    \A u \in Uids :
        /\ {t \in DOMAIN tokens : tokens[t] = u}
              = IF issued[u] = <<>> THEN {} ELSE {Last(issued[u])}
        /\ \A p \in AllPaints :
              (p.uid = u /\ u \notin bannedUIDs /\ <<p.x, p.y>> \in Coords
               /\ \E k \in 1 .. Len(issued[u]) : issued[u][k] = p.token)
              => IF p.token # Last(issued[u])
                 THEN Painted(p).code = INVALID_TOKEN
                 ELSE (lastPaintTime[u] = Undefined
                       \/ now - lastPaintTime[u] >= paintDelay)
                      => Painted(p).code = SUCCESS

\* uid 1 rotated its token while a second call was in flight, a paint with
\* the old token was refused and the uid painted with the newest.
C7_Witness ==
    /\ Len(issued[1]) >= 2
    /\ pendingGen[1] > 0
    /\ Answered(INVALID_TOKEN)
    /\ successLog[1] # <<>>
    /\ Last(successLog[1])[2] = Last(issued[1])

(* C6: the batch a tick broadcasts holds exactly one 8-byte 0xFA record for
   each pixel set successfully since the previous broadcast and nothing else,
   each record with the colour of the pixel's latest set; after the broadcast
   no pixel is dirty. *)
C6_BroadcastOncePerDirtyPixel ==
    LET f == flushUpdates(Cur)
        D == {xy \in Coords : written[xy] > 0}
        n == Len(f.batch) \div 8
        Rec(k) == SubSeq(f.batch, 8 * k - 7, 8 * k)
    IN  /\ Len(f.batch) = 8 * Cardinality(D)
        /\ \A xy \in D :
              Cardinality({k \in 1 .. n :
                  Rec(k) = <<250, xy[1] % 256, xy[1] \div 256,
                             xy[2] % 256, xy[2] \div 256>> \o lastSet[xy]}) = 1
        /\ f.s.dirtyList = <<>>
        /\ \A p \in Pixels : ~f.s.dirtyFlags[p]

\* (0,0), (1,0), (0,0) were set since the last broadcast: two pixels are dirty.
C6_Witness ==
    /\ written[<<0, 0>>] = 2
    /\ written[<<1, 0>>] = 1
    /\ dirtyList = <<0, 1>>
    /\ Len(flushUpdates(Cur).batch) = 16

\* The arguments setPixel is tried with: one step outside the board each way.
SetArgs == (0 - 1) .. (width + 1)

\* How often pixelId occurs in the dirty list
Occurrences(list, pixelId) == Cardinality({k \in 1 .. Len(list) : list[k] = pixelId})

(* C8: setPixel(x, y, color) returns false exactly when x is outside
   [0, width) or y is outside [0, height), changing nothing; otherwise it
   returns true, writes the three colour bytes at offset (y*width+x)*3 and no
   other byte, and y*width+x is in the dirty list exactly once afterwards,
   the other dirty pixels staying as they were. *)
C8_SetPixelContract ==
    \A x \in SetArgs, y \in SetArgs, color \in Colors :
        LET r == setPixel(Cur, x, y, color)
            off == (y * width + x) * 3
        IN  /\ r.ok = (x >= 0 /\ x < width /\ y >= 0 /\ y < height)
            /\ ~r.ok => /\ r.s.pixelView = pixelView
                        /\ r.s.dirtyFlags = dirtyFlags
                        /\ r.s.dirtyList = dirtyList
            /\ r.ok => /\ <<r.s.pixelView[off + 1], r.s.pixelView[off + 2],
                            r.s.pixelView[off + 3]>> = color
                       /\ \A i \in DOMAIN pixelView :
                              i \notin {off + 1, off + 2, off + 3}
                              => r.s.pixelView[i] = pixelView[i]
                       /\ Occurrences(r.s.dirtyList, y * width + x) = 1
                       /\ r.s.dirtyFlags[y * width + x]
                       /\ \A q \in Pixels \ {y * width + x} :
                              /\ Occurrences(r.s.dirtyList, q) = Occurrences(dirtyList, q)
                              /\ r.s.dirtyFlags[q] = dirtyFlags[q]

\* (0,1) was set twice since the last broadcast and is in the dirty list
\* once, behind (1,0).
C8_Witness ==
    /\ written[<<0, 1>>] = 2
    /\ dirtyList = <<1, 2>>

(* C9: the snapshot bytes at (y*width+x)*3 .. +3 are the colour of the last
   successful set of (x, y), whatever broadcasts happened in between, and
   are 170,170,170 for a coordinate that was never set. *)
C9_SnapshotLastSet ==
    \A xy \in Coords :
        LET off == (xy[2] * width + xy[1]) * 3
            b == getBoardBuffer(Cur)
        IN  <<b[off + 1], b[off + 2], b[off + 3]>>
              = IF lastSet[xy] = NoColor THEN <<170, 170, 170>> ELSE lastSet[xy]

\* (1,0) was set and broadcast, (0,1) was set after that and not broadcast
\* yet, (1,1) was never set.
C9_Witness ==
    /\ lastSet[<<1, 0>>] = <<1, 2, 3>>
    /\ written[<<1, 0>>] = 0
    /\ lastSet[<<0, 1>>] = <<255, 0, 0>>
    /\ written[<<0, 1>>] > 0
    /\ lastSet[<<1, 1>>] = NoColor

(* C10: at the instant a socket exceeded maxPacketPerSecond in its window,
   when its IP has just been banned for 15 s, no socket of that IP is open:
   all of them were closed. *)
C10_RateLimitClosesAll ==
    \A ip \in IPs :
        bannedIPs[ip] = now + RateBanMs
        => \A c \in ConnIds : conns[c].ip = ip => conns[c].state # "open"

(* C11: a socket that has received more than maxPacketPerSecond packets
   within one second (any window of one second, wherever it starts) has
   been disconnected: no open socket has its latest maxPacketPerSecond + 1
   packets less than a second apart. *)
C11_RollingWindowDisconnects ==
    \A c \in ConnIds :
        conns[c].state = "open"
        => ~ ( /\ Len(packetLog[c]) = maxPacketPerSecond + 1
               /\ Last(packetLog[c]) - Head(packetLog[c]) < RateWindowMs )

(* C12: when a socket is closed with 1013 for exceeding the packet rate,
   every HTTP request of its IP in the banDuration ms that follow is
   answered 429 with a Retry-After header (checked at the instant of the
   close, at the ends of the first 15 s and of the banDuration, for the ban
   table the close leaves). *)
C12_RateBanAnswers429 ==
    [][\A c \in ConnIds :
          (conns[c].closeCode # 1013 /\ conns'[c].closeCode = 1013)
          => \A d \in {0, RateBanMs - 1, RateBanMs, banDuration - 1} :
                LET a == HttpAnswer(bannedIPs', conns'[c].ip,
                                    "/api/paintboard/getboard", now' + d)
                IN  a.status = 429 /\ a.retryAfter >= 1]_vars

(* C13: at the instant the per-IP socket limit banned an IP (a socket opened
   while maxWebSocketPerIP sockets of the IP were open), every socket of
   that IP is closed, the existing ones and the new one with code 1008, and
   none is registered or subscribed to the broadcast. *)
C13_LimitClosesAll ==
    \A ip \in IPs :
        bannedIPs[ip] = now + banDuration
        => /\ ipConnections[ip] = <<>>
           /\ \A c \in ConnIds :
                 (conns[c].ip = ip /\ conns[c].state # "none")
                 => /\ conns[c].state = "closed"
                    /\ ~conns[c].subscribed

(* C14: while the ban of an IP has not expired, every HTTP request of that
   IP, whatever its path, is answered 429 with a Retry-After header. *)
C14_BannedIpAnswered429 ==
    \A ip \in IPs, path \in StaticRoutes \cup FetchRoutes :
        (bannedIPs[ip] # Undefined /\ now < bannedIPs[ip])
        => LET a == HttpAnswer(bannedIPs, ip, path, now)
           IN  a.status = 429 /\ a.retryAfter >= 1

\* The frame c sends now is not the one that exceeds the packet rate.
WithinRate(c) ==
    \/ now - conns[c].lastPacketCountReset >= RateWindowMs
    \/ conns[c].packetsReceived < maxPacketPerSecond

\* What may follow in the frame: nothing, or a paint of uid 1.
FrameRests == {<<>>} \cup {<<p>> : p \in ProtoPaints}

\* The handlers' state s differs from the present one in socket c only.
OnlySocketChanged(s, c) ==
    /\ s.pixelView = pixelView
    /\ s.dirtyFlags = dirtyFlags
    /\ s.dirtyList = dirtyList
    /\ s.lastPaintTime = lastPaintTime
    /\ s.successLog = successLog
    /\ s.bannedIPs = bannedIPs
    /\ \A d \in ConnIds \ {c} : s.conns[d] = conns[d]

(* C15: a pong received while the socket is not waiting for one (no ping
   outstanding, or the second pong of a frame after the one ping was
   answered) closes the socket with 1002, and the paint that follows it in
   the frame is not processed: board, dirty pixels and cooldown are as
   before. *)
C15_UnexpectedPongCloses ==
    \A c \in ConnIds, rest \in FrameRests, delay \in PingDelays :
        (conns[c].state = "open" /\ WithinRate(c))
        => LET pongs == IF conns[c].waitingPong THEN <<Pong, Pong>> ELSE <<Pong>>
               r == message(Cur, c, pongs \o rest, delay)
           IN  /\ r.conns[c].state = "closed"
               /\ r.conns[c].closeCode = 1002
               /\ r.conns[c].sendBuffer = <<>>
               /\ OnlySocketChanged(r, c)

\* A pong was accepted at this instant, the socket was closed with 1002 at
\* the same instant, and a paint of uid 1 would have succeeded.
C15_Witness ==
    /\ conns[1].state = "closed"
    /\ conns[1].closeCode = 1002
    /\ conns[1].lastPing = now
    /\ conns[1].lastPing > conns[1].connectedAt
    /\ tokens[1] = 1
    /\ lastPaintTime[1] = Undefined

\* The longest ping delay
MaxPingDelay == 29999

\* The deadlines of the heartbeat, as a predicate of the state.
C16_Deadlines ==
    \A c \in ConnIds :
        conns[c].state = "open"
        => /\ now - conns[c].lastPing <= MaxPingDelay + PongTimeoutMs
           /\ (conns[c].lastPing = conns[c].connectedAt
               => now - conns[c].connectedAt <= 30000 + 3000)
           /\ conns[c].waitingPong
              => /\ conns[c].pongTimer # Undefined
                 /\ conns[c].pongTimer <= conns[c].lastPing + MaxPingDelay + PongTimeoutMs
                 /\ now >= conns[c].pongTimer
                    => LET r == pongTimeout([Cur EXCEPT !.conns[c].pongTimer = Undefined], c)
                       IN  /\ r.conns[c].state = "closed"
                           /\ r.conns[c].closeCode = 1001
           /\ ~conns[c].waitingPong
              => /\ conns[c].pingTimer # Undefined
                 /\ conns[c].pingTimer <= conns[c].lastPing + MaxPingDelay

(* C16: on an open socket with a ping outstanding the pong deadline is
   pending, due 3 s after the ping, and when it fires with no pong received
   the socket is closed with 1001; with no ping outstanding the next ping is
   pending, due at most 29999 ms after the open or the last pong; no
   socket is open later than 30 s + 3 s after it opened or last sent a pong.
   Hence, when the clock moves and due timers fire, every socket that is
   open and has sent no pong is eventually closed, unless it sends one. *)
C16_PingTimeoutCloses ==
    /\ []C16_Deadlines
    /\ (conns[1].state = "open" /\ conns[1].lastPing = conns[1].connectedAt)
         ~> (conns[1].state = "closed" \/ conns[1].lastPing > conns[1].connectedAt)

\* A socket that never sent a pong was closed with 1001, 29999 + 3000 ms
\* after it opened.
C16_Witness ==
    /\ conns[1].state = "closed"
    /\ conns[1].closeCode = 1001
    /\ conns[1].lastPing = conns[1].connectedAt
    /\ now = conns[1].connectedAt + MaxPingDelay + PongTimeoutMs

\* The heartbeat's state on the sockets: none was closed, the pong deadline
\* is pending and not yet due exactly while a ping is outstanding, the next
\* ping is pending exactly while none is.
C17_HeartbeatState ==
    \A c \in ConnIds :
        /\ conns[c].state # "closed"
        /\ conns[c].closeCode \notin {1001, 1002}
        /\ conns[c].state = "open"
           => IF conns[c].waitingPong
              THEN /\ conns[c].pingTimer = Undefined
                   /\ conns[c].pongTimer # Undefined
                   /\ now < conns[c].pongTimer
              ELSE /\ conns[c].pongTimer = Undefined
                   /\ conns[c].pingTimer # Undefined

\* A step that issues a ping on c, or accepts a pong of c, does what the
\* heartbeat says.
C17_HeartbeatStep ==
    \A c \in ConnIds :
        /\ (conns[c].state = "open" /\ ~conns[c].waitingPong /\ conns'[c].waitingPong)
           => /\ conns'[c].sendBuffer = Append(conns[c].sendBuffer, 252)
              /\ conns'[c].pongTimer = now + PongTimeoutMs
        /\ (conns[c].waitingPong /\ ~conns'[c].waitingPong)
           => /\ conns'[c].state = "open"
              /\ conns'[c].pongTimer = Undefined
              /\ conns'[c].pingTimer >= now + 1000
              /\ conns'[c].pingTimer <= now + MaxPingDelay

(* C17: a socket whose client answers every ping with exactly one pong
   before the 3 s deadline is never closed by the heartbeat, neither with
   1001 nor with 1002: each ping appends 0xFC to the send buffer, sets
   waitingPong and starts the deadline; each pong cancels the deadline,
   clears waitingPong and schedules exactly one next ping, so a ping or a
   deadline is always pending while the socket is open. *)
C17_PoliteNeverClosed ==
    /\ []C17_HeartbeatState
    /\ [][C17_HeartbeatStep]_vars

\* Socket 1 answered a ping and the next ping has been issued on it.
C17_Witness ==
    /\ conns[1].state = "open"
    /\ conns[1].lastPing > conns[1].connectedAt
    /\ conns[1].waitingPong

(* C18: a packet whose tag is neither 0xFB nor 0xFE closes the socket with
   1002 and no packet after it in the frame is processed: with a paint
   before it and a paint after it, the state is the one the first paint
   alone and the close leave; with nothing before it, board, dirty pixels
   and cooldown are unchanged. *)
C18_UnknownTagCloses ==
    \A c \in ConnIds, pre \in FrameRests, rest \in FrameRests, delay \in PingDelays :
        (conns[c].state = "open" /\ WithinRate(c))
        => LET r == message(Cur, c, pre \o <<Unknown>> \o rest, delay)
           IN  /\ r.conns[c].state = "closed"
               /\ r.conns[c].closeCode = 1002
               /\ r = message(Cur, c, pre \o <<Unknown>>, delay)
               /\ pre = <<>> => OnlySocketChanged(r, c)
               /\ pre # <<>> =>
                     LET q == TryPaint(Cur, pre[1])
                     IN  /\ r.pixelView = q.s.pixelView
                         /\ r.dirtyList = q.s.dirtyList
                         /\ r.lastPaintTime = q.s.lastPaintTime
                         /\ r.successLog = q.s.successLog

\* The socket was closed with 1002 at the instant it opened, without a pong
\* accepted, while a paint of uid 1 would have succeeded and none has.
C18_Witness ==
    /\ conns[1].state = "closed"
    /\ conns[1].closeCode = 1002
    /\ conns[1].lastPing = conns[1].connectedAt
    /\ now = conns[1].connectedAt
    /\ tokens[1] = 1
    /\ successLog[1] = <<>>
    /\ lastPaintTime[1] = Undefined

\* Id bytes of requests: small ids, all bits set, the top bit alone.
IdBytes == {<<7, 0, 0, 0>>, <<2, 1, 0, 0>>, <<255, 255, 255, 255>>, <<0, 0, 0, 128>>}

(* C19: a frame of several well-formed packets is decoded packet by packet,
   in order, to its end: for two paints, with a pong between them when one
   is awaited, the send buffer grows by exactly the two results in the
   order of the paints, each 0xFF, the four id bytes of its request, the
   result code; the second paint is judged in the state the first left. *)
C19_FrameDecodedInOrder ==
    \A c \in ConnIds, p1 \in ProtoPaints, p2 \in ProtoPaints,
       B1 \in IdBytes, B2 \in {<<2, 1, 0, 0>>, <<255, 255, 255, 255>>} :
        (conns[c].state = "open" /\ WithinRate(c))
        => LET a == [p1 EXCEPT !.id = RequestId(B1)]
               b == [p2 EXCEPT !.id = RequestId(B2)]
               mid == IF conns[c].waitingPong THEN <<Pong>> ELSE <<>>
               r == message(Cur, c, <<a>> \o mid \o <<b>>, 1000)
               q1 == TryPaint(Cur, a)
               q2 == TryPaint(q1.s, b)
           IN  /\ r.conns[c].state = "open"
               /\ r.conns[c].sendBuffer
                    = conns[c].sendBuffer \o <<255>> \o B1 \o <<q1.code>>
                                          \o <<255>> \o B2 \o <<q2.code>>
               /\ r.pixelView = q2.s.pixelView
               /\ r.dirtyList = q2.s.dirtyList
               /\ r.lastPaintTime = q2.s.lastPaintTime
               /\ mid # <<>> => ~r.conns[c].waitingPong

\* One frame of two paints of uid 1 was answered SUCCESS for request 7 and
\* COOLING for request 258, in this order.
C19_Witness ==
    /\ conns[1].sendBuffer = <<255, 7, 0, 0, 0, 239, 255, 2, 1, 0, 0, 238>>
    /\ Len(successLog[1]) = 1
    /\ successLog[1][1][1] = now

(* C20: in a tick every open socket gets at most one socket write, which
   carries its ping bytes, its paint results and the broadcast records
   together. *)
C20_OneWritePerTick ==
    \A c \in ConnIds : conns[c].state = "open" => Len(TickWrites[c]) <= 1

\* The 0xFA record of the pixel xy in its present colour.
RecordOf(xy) == UpdateRecord(pixelView, xy[2] * width + xy[1])

\* The 8-byte records of a batch.
Records(batch) == {SubSeq(batch, 8 * k - 7, 8 * k) : k \in 1 .. (Len(batch) \div 8)}

\* The broadcast the next tick makes, as a predicate of the state: it holds
\* a record for every pixel set since the last broadcast, in the colour of
\* its latest set, and it is written to every open socket.
C21_NextBroadcast ==
    LET batch == flushUpdates(Cur).batch
    IN  \A xy \in Coords :
            written[xy] > 0
            => /\ RecordOf(xy) \in Records(batch)
               /\ RecordOf(xy) = <<250, xy[1], 0, xy[2], 0>> \o lastSet[xy]
               /\ \A c \in ConnIds :
                     conns[c].state = "open"
                     => /\ TickWrites[c] # <<>>
                        /\ Last(TickWrites[c]) = batch

\* A SUCCESS marks its pixel as set, and the mark stays until a step that
\* broadcasts: one that empties the dirty list and sends every send buffer
\* of a registered socket.
C21_PaintToBroadcast ==
    /\ \A u \in Uids :
          Len(successLog'[u]) > Len(successLog[u])
          => \E xy \in Coords : written'[xy] = written[xy] + 1 /\ lastSet'[xy] # NoColor
    /\ \A xy \in Coords :
          written'[xy] < written[xy]
          => /\ dirtyList' = <<>>
             /\ pixelView' = pixelView
             /\ now' = now

(* C21: every SUCCESS paint is followed, in the first tick after it, by a
   broadcast that holds the record of its pixel, and that broadcast is
   written to every socket that is open at that tick, the painter's
   included, whether the socket is registered in ipConnections or not. *)
C21_BroadcastReachesAll ==
    /\ []C21_NextBroadcast
    /\ [][C21_PaintToBroadcast]_vars

\* uid 1 painted (1,0) on socket 2, which is open but no longer registered
\* (the per-IP limit closed the others), and no tick has come since.
C21_Witness ==
    /\ written[<<1, 0>>] > 0
    /\ conns[2].state = "open"
    /\ 2 \notin Registered
    /\ conns[2].sendBuffer = PaintResult(7, SUCCESS)
    /\ conns[3].state = "closed"

\* p is a prefix of q
IsPrefix(p, q) == Len(p) <= Len(q) /\ SubSeq(q, 1, Len(p)) = p

\* What an open socket's send buffer holds, the next tick sends to it.
C22_SentByTick ==
    \A c \in ConnIds :
        (conns[c].state = "open" /\ conns[c].sendBuffer # <<>>)
        => /\ TickWrites[c] # <<>>
           /\ TickWrites[c][1] = conns[c].sendBuffer

\* A step takes nothing out of a send buffer, except the tick that sends it
\* (the socket is registered and stays open) and the peer's own close.
C22_NothingDropped ==
    \A c \in ConnIds :
        ~IsPrefix(conns[c].sendBuffer, conns'[c].sendBuffer)
        => \/ conns'[c].state = "open" /\ c \in Registered
           \/ conns'[c].closeCode = 1000

(* C22: the result of every processed paint is delivered to the socket that
   sent the paint by the next tick: the tick sends what the send buffer of
   an open socket holds, and nothing written to a send buffer is dropped
   before that. *)
C22_ResultDelivered ==
    /\ []C22_SentByTick
    /\ [][C22_NothingDropped]_vars

\* The result codes of a refused paint.
Refusals == {INVALID_TOKEN, COOLING, BAD_FORMAT, NO_PERMISSION}

(* C23: a paint that is refused with INVALID_TOKEN, COOLING, BAD_FORMAT or
   NO_PERMISSION gets the 6-byte 0xFF result with that code in the send
   buffer and nothing else happens to the socket or to the ban table: the
   socket stays open and registered, and the paint that follows it in the
   frame is processed, in the state the refused paint left, and answered
   behind it. *)
C23_RefusalKeepsSocket ==
    \A c \in ConnIds, p \in RefusalPaints, rest \in RefusalRests :
        (conns[c].state = "open" /\ WithinRate(c) /\ TryPaint(Cur, p).code \in Refusals)
        => LET q == TryPaint(Cur, p)
               r == message(Cur, c, <<p>> \o rest, 29999)
               after == IF rest = <<>> THEN q ELSE TryPaint(q.s, rest[1])
           IN  /\ r.conns[c].state = "open"
               /\ r.conns[c].closeCode = 0
               /\ r.conns[c].subscribed = conns[c].subscribed
               /\ r.ipConnections = ipConnections
               /\ r.bannedIPs = bannedIPs
               /\ r.conns[c].sendBuffer
                    = conns[c].sendBuffer \o <<255, 7, 0, 0, 0, q.code>>
                        \o (IF rest = <<>> THEN <<>> ELSE <<255, 2, 1, 0, 0, after.code>>)
               /\ r.pixelView = after.s.pixelView
               /\ r.dirtyList = after.s.dirtyList
               /\ r.lastPaintTime = after.s.lastPaintTime

\* One frame was answered NO_PERMISSION for the paint of the banned uid 2
\* and SUCCESS for the paint of uid 1 behind it; the socket is open and no
\* IP is banned.
C23_Witness ==
    /\ conns[1].state = "open"
    /\ conns[1].sendBuffer = <<255, 7, 0, 0, 0, 235, 255, 2, 1, 0, 0, 239>>
    /\ 2 \in bannedUIDs
    /\ bannedIPs = [ip \in IPs |-> Undefined]
    /\ lastSet[<<1, 0>>] = <<255, 0, 0>>

(* C24: a banuid or unbanuid request whose body token is the configured
   admin token (banToken) is answered 200 and adds the uid to, or removes
   it from, the banned uids; every other request, the one without a token
   included, is answered 401 and leaves the set as it is. *)
C24_BanNeedsAdminToken ==
    \A t \in BodyTokens, u \in Uids, ban \in BOOLEAN :
        LET r == banUidRoute(bannedUIDs, t, u, ban)
        IN  IF t = configBanToken
            THEN /\ r.status = 200
                 /\ r.bannedUIDs = IF ban THEN bannedUIDs \cup {u} ELSE bannedUIDs \ {u}
            ELSE /\ r.status = 401
                 /\ r.bannedUIDs = bannedUIDs

\* The frames that are protocol errors on socket c: an unknown tag, a paint
\* tag with too few bytes behind it, a pong that is not awaited.
ErrorFrames(c) ==
    {<<Unknown>>, <<[type |-> "short"]>>,
     IF conns[c].waitingPong THEN <<Pong, Pong>> ELSE <<Pong>>}

(* C30: a protocol error on a socket (unknown tag, unexpected pong,
   malformed frame) closes that socket, with 1002 or 1011, and nothing
   else: the IP ban table is unchanged, every other socket is exactly as it
   was, and the sockets registered for the IP are the ones that were, in
   their order, without the closed one. *)
C30_ProtocolErrorClosesOne ==
    \A c \in ConnIds, delay \in PingDelays :
        (conns[c].state = "open" /\ WithinRate(c))
        => \A frame \in ErrorFrames(c) :
              LET r == message(Cur, c, frame, delay)
                  ip == conns[c].ip
                  i == IndexOf(ipConnections[ip], c, 1)
              IN  /\ r.conns[c].state = "closed"
                  /\ r.conns[c].closeCode = IF frame[1].type = "short" THEN 1011 ELSE 1002
                  /\ r.bannedIPs = bannedIPs
                  /\ \A d \in ConnIds \ {c} : r.conns[d] = conns[d]
                  /\ \A other \in IPs \ {ip} : r.ipConnections[other] = ipConnections[other]
                  /\ r.ipConnections[ip] = IF i > 0 THEN Splice(ipConnections[ip], i)
                                           ELSE ipConnections[ip]
                  /\ r.pixelView = pixelView
                  /\ r.lastPaintTime = lastPaintTime

\* Socket 1 was closed with 1011 for a malformed frame; socket 2 of the same
\* IP is open and registered, and the IP is not banned.
C30_Witness ==
    /\ conns[1].state = "closed"
    /\ conns[1].closeCode = 1011
    /\ conns[2].state = "open"
    /\ conns[2].ip = conns[1].ip
    /\ ipConnections["ip1"] = <<2>>
    /\ bannedIPs["ip1"] = Undefined

\* The byte grid of a running server has the size of the board's
\* dimensions, which are the configured ones.
C25_GridOfBoardSize ==
    phase = "run"
    => /\ Len(pixelView) = board.width * board.height * 3
       /\ board = [width |-> width, height |-> height]

(* C25: after construction the byte grid has exactly width*height*3 bytes
   for the board's width and height, and these never change while the
   server runs; a start with clearBoard = false over a stored board of
   other dimensions than the configured ones does not adopt that board (it
   fails), so the dimensions of a running server are the configured ones. *)
C25_FixedDimensions ==
    /\ []C25_GridOfBoardSize
    /\ [][(phase = "run" /\ phase' = "run") => board' = board]_vars

(* C26: saving the board, by the interval or at shutdown, and constructing
   a new board of the same width and height from the database with
   clearBoard = false gives exactly the bytes that were saved, and the
   width and height that were saved, for every content of the board. *)
C26_SaveLoadRoundTrip ==
    phase = "run"
    => LET snapshot == getBoardBuffer(Cur)
           saved == saveBoard(storage, pixelView, board.width, board.height)
           fresh == constructor(saved, TRUE, FALSE)
       IN  /\ loadBoard(saved)
                = <<[width |-> board.width, height |-> board.height, pixels |-> snapshot]>>
           /\ fresh.ok
           /\ fresh.pixelView = snapshot
           /\ fresh.board = board

\* A server that was started from the database shows the pixel (0,0) that
\* was painted <<1, 2, 3>> in an earlier run and saved, and the bytes 7 of
\* the board stored before that; nothing was set in this run.
C26_Witness ==
    /\ phase = "run"
    /\ board = [width |-> width, height |-> height]
    /\ \A xy \in Coords : lastSet[xy] = NoColor
    /\ pixelView = <<1, 2, 3, 7, 7, 7, 7, 7, 7, 7, 7, 7>>
    /\ storage.board[1].pixels = pixelView

\* The rows of uid in the stored tokens
RowsOf(rows, uid) == SelectSeq(rows, LAMBDA r : r.uid = uid)

(* C27: at start-up with a legacy database file, the import and the
   duplicate clean-up have run before the tokens are loaded into the
   registry: once the import is over, every token of the legacy file that
   the clean-up left in the database is accepted by a paint request (it is
   not answered INVALID_TOKEN) in that same run. *)
C27_ImportedTokensAccepted ==
    (phase = "run" /\ ~migrating /\ legacy.exists)
    => \A k \in 1 .. Len(legacy.rows) :
          LET row == legacy.rows[k]
          IN  (row \in SeqToSet(storage.tokens) /\ row.uid \notin bannedUIDs)
              => TryPaint(Cur, PaintWith(row.token, row.uid)).code # INVALID_TOKEN

(* C28: the database never holds two token rows of one uid, whatever
   happened before (issues, the legacy import, the process killed between
   handlers or between deleteTokensByUid and saveToken); and for an issue
   to uid U with a fresh token, each point of deleteTokensByUid + saveToken
   has at most one row of U, the rows of the other uids stay as they were,
   and at the end the one row of U is the new token, the only token the
   registry then holds for U. *)
C28_OneStoredTokenPerUid ==
    /\ \A u \in Uids : Len(RowsOf(storage.tokens, u)) <= 1
    /\ (phase = "run" /\ useDB /\ nextToken <= MaxTokens)
       => \A u \in Uids :
             LET points == storeToken(storage.tokens, u, nextToken)
                 reg == generateToken(tokens, u, nextToken)
             IN  /\ \A k \in 1 .. 3 :
                       /\ Len(RowsOf(points[k], u)) <= 1
                       /\ \A v \in Uids \ {u} :
                             RowsOf(points[k], v) = RowsOf(storage.tokens, v)
                 /\ RowsOf(points[3], u) = <<[token |-> nextToken, uid |-> u]>>
                 /\ {t \in TokenSpace : reg[t] = u} = {nextToken}

\* uid 1 held token 1, in the registry and in the database, and was issued
\* token 2 in the same run: token 2 is its only row and its only token.
C28_Witness ==
    /\ phase = "run"
    /\ issued[1] = <<1, 2>>
    /\ tokens[1] = Undefined
    /\ tokens[2] = 1
    /\ RowsOf(storage.tokens, 1) = <<[token |-> 2, uid |-> 1]>>

\* The error generateToken returns for a response that fails a test, in the
\* order the claim lists them
C29_ErrorOf(uid, resp) ==
    IF resp.status = 404 THEN "PASTE_NOT_FOUND"
    ELSE IF resp.status = 200 /\ resp.json /\ resp.code = 200 /\ resp.uid # uid
    THEN "UID_MISMATCH"
    ELSE IF resp.status = 200 /\ resp.json /\ resp.code = 200 /\ resp.data # validationPaste
    THEN "CONTENT_MISMATCH"
    ELSE NoError

(* C29: generateToken returns a token only if the paste service answered
   status 200 with JSON code 200, the paste's uid is the requested uid and
   the paste's text is validationPaste (the request is answered 200).
   Otherwise it returns no token, the error is PASTE_NOT_FOUND for 404,
   UID_MISMATCH for another uid, CONTENT_MISMATCH for another text (the
   request is answered 403) and none for anything else (answered 500), and
   the registry and the stored tokens are as before, so the token the uid
   held is still the one validateToken knows. *)
C29_TokenOnlyForValidPaste ==
    (phase = "run" /\ nextToken <= MaxTokens)
    => \A u \in Uids, resp \in PasteResponses :
          LET g == generateTokenResumed(tokens, storage.tokens, useDB, u,
                                        validatePaste(u, resp), nextToken)
              http == handleTokenRequest(g.result)
          IN  IF resp = GoodPaste(u)
              THEN /\ g.result = [token |-> nextToken, error |-> NoError]
                   /\ g.tokens[nextToken] = u
                   /\ http = [status |-> 200, errorType |-> NoError]
              ELSE /\ g.result = [token |-> Undefined, error |-> C29_ErrorOf(u, resp)]
                   /\ g.tokens = tokens
                   /\ g.rows = storage.tokens
                   /\ http = IF g.result.error = NoError
                             THEN [status |-> 500, errorType |-> "SERVER_ERROR"]
                             ELSE [status |-> 403, errorType |-> g.result.error]

\* uid 1 holds token 1, asked for another token and was refused, as the
\* paste's text was not validationPaste: token 1 is still in the registry
\* and in the database and a paint with it is not answered INVALID_TOKEN.
C29_Witness ==
    /\ phase = "run"
    /\ tokenReply[1] = [token |-> Undefined, error |-> "CONTENT_MISMATCH"]
    /\ issued[1] = <<1>>
    /\ tokens[1] = 1
    /\ storage.tokens = <<[token |-> 1, uid |-> 1]>>
    /\ TryPaint(Cur, PaintWith(1, 1)).code # INVALID_TOKEN

\* A closed socket has no timer and nothing about it changes any more: no
\* ping is written to its buffer, no later close gives it another code.
C31_ClosedSocketIsLeftAlone ==
    \A c \in ConnIds :
        conns[c].state = "closed" => conns'[c] = conns[c]

(* C31: once a socket is closed, whatever closed it (the client, a broken
   frame, an unexpected pong, the packet rate, the per-IP limit, a refused
   open, the ping timeout), its ping timer and its pong deadline are
   cancelled: neither is pending, so no ping is issued for it and no ping
   timeout closes it afterwards. *)
C31_TimersCancelledOnClose ==
    /\ [](\A c \in ConnIds : conns[c].state = "closed"
            => /\ conns[c].pingTimer = Undefined
               /\ conns[c].pongTimer = Undefined
               /\ conns[c].lostTimers = 0)
    /\ [][C31_ClosedSocketIsLeftAlone]_vars

\* Socket 1 answered a ping, so that its next ping was scheduled, and was
\* closed; the clock has passed every instant at which that ping and its
\* deadline could have been due.
C31_Witness ==
    /\ conns[1].state = "closed"
    /\ conns[1].lastPing > conns[1].connectedAt
    /\ now >= conns[1].lastPing + 29999 + PongTimeoutMs

(* C32: a frame that ends inside a 0xFE paint packet (fewer than 31 bytes
   of the frame remain at its tag) closes the socket with 1011.  The
   truncated packet changes neither the board, the dirty pixels nor the
   cooldown and writes no paint result, and what a complete paint before it
   in the same frame did stays done; the other sockets are as before. *)
C32_TruncatedPaintCloses ==
    /\ \A remaining \in 1 .. 30 : PacketKind(254, remaining) = "short"
    /\ PacketKind(254, 31) = "paint"
    /\ \A c \in ConnIds, pre \in FrameRests, delay \in PingDelays :
          (conns[c].state = "open" /\ WithinRate(c))
          => LET r == message(Cur, c, pre \o <<Short>>, delay)
                 q == IF pre = <<>> THEN Cur ELSE TryPaint(Cur, pre[1]).s
             IN  /\ r.conns[c].state = "closed"
                 /\ r.conns[c].closeCode = 1011
                 /\ r.conns[c].sendBuffer = <<>>
                 /\ r.pixelView = q.pixelView
                 /\ r.dirtyFlags = q.dirtyFlags
                 /\ r.dirtyList = q.dirtyList
                 /\ r.lastPaintTime = q.lastPaintTime
                 /\ r.successLog = q.successLog
                 /\ r.bannedIPs = bannedIPs
                 /\ \A d \in ConnIds \ {c} : r.conns[d] = conns[d]
                 /\ pre = <<>> => OnlySocketChanged(r, c)

\* Socket 1 was closed with 1011 at the instant it opened; socket 2 was
\* never opened, so the one paint of uid 1 that succeeded, of pixel (0,0),
\* was the complete packet before the truncated one.
C32_Witness ==
    /\ conns[1].state = "closed"
    /\ conns[1].closeCode = 1011
    /\ now = conns[1].connectedAt
    /\ conns[2].state = "none"
    /\ successLog[1] = <<<<now, 1>>>>
    /\ lastPaintTime[1] = now
    /\ lastSet[<<0, 0>>] = <<1, 2, 3>>
    /\ dirtyList # <<>>

\* The next frame of socket c is the one that passes maxPacketPerSecond.
C33_NextFrameExceeds(c) ==
    /\ conns[c].state = "open"
    /\ now - conns[c].lastPacketCountReset < RateWindowMs
    /\ conns[c].packetsReceived >= maxPacketPerSecond

\* Frames whose packets would each have an effect where they are decoded: a
\* pong, paints of uid 1 in and out of bounds, with and without its token.
C33_Frames ==
    {<<>>, <<Pong>>} \cup {<<p>> : p \in ProtoPaints} \cup {<<Pong, p>> : p \in ProtoPaints}

(* C33: the frame that makes a socket pass maxPacketPerSecond is dropped
   whole: what the handler does is the same whatever the frame holds, it
   paints no pixel, marks none dirty, stamps no cooldown, accepts no pong
   (a socket left open keeps its heartbeat state) and writes no paint
   result to any send buffer.  And a frame handed to the handler for a
   socket that is not open changes nothing at all. *)
C33_ExceedingFrameDropped ==
    \A c \in ConnIds, frame \in C33_Frames, delay \in PingDelays :
        /\ C33_NextFrameExceeds(c)
           => LET r == message(Cur, c, frame, delay)
                  e == message(Cur, c, <<>>, delay)
              IN  /\ [r EXCEPT !.packetLog = e.packetLog] = e
                  /\ r.pixelView = pixelView
                  /\ r.dirtyFlags = dirtyFlags
                  /\ r.dirtyList = dirtyList
                  /\ r.lastPaintTime = lastPaintTime
                  /\ r.successLog = successLog
                  /\ \A d \in ConnIds :
                        /\ r.conns[d].sendBuffer \in {conns[d].sendBuffer, <<>>}
                        /\ r.conns[d].state = "open"
                           => /\ r.conns[d].waitingPong = conns[d].waitingPong
                              /\ r.conns[d].lastPing = conns[d].lastPing
                              /\ r.conns[d].pingTimer = conns[d].pingTimer
                              /\ r.conns[d].pongTimer = conns[d].pongTimer
        /\ conns[c].state # "open" => messageHandler(Cur, c, frame, delay) = Cur

\* Socket 1 was closed for the packet rate at the instant it opened: of its
\* three frames the first painted (0,0), the second was answered COOLING
\* and the third, the same paint or a pong, was dropped; a frame for the
\* closed socket can arrive now.
C33_Witness ==
    /\ conns[1].state = "closed"
    /\ conns[1].closeCode = 1013
    /\ now = conns[1].connectedAt
    /\ bannedIPs["ip1"] = now + RateBanMs
    /\ tokens[1] = 1
    /\ successLog[1] = <<<<now, 1>>>>
    /\ lastPaintTime[1] = now
    /\ dirtyList = <<0>>
    /\ ENABLED LateMessage(1, <<PaintWith(1, 1)>>, 29999)

\* The sockets that were accepted and are open (a refused socket is closed
\* before websocket.open returns).
AcceptedOpen == {c \in ConnIds : conns[c].state = "open"}

(* C34: in every reachable state webSocketConnectionCount is the number of
   sockets registered in ipConnections, which is the number of accepted
   sockets that are still open, and it is never negative, whatever the
   order of opens, refused opens, rate-limit closes and ordinary closes. *)
C34_CountIsRegistered ==
    /\ webSocketConnectionCount = Cardinality(Registered)
    /\ webSocketConnectionCount = Cardinality(AcceptedOpen)
    /\ webSocketConnectionCount >= 0

\* No IP has more than maxWebSocketPerIP sockets registered, and every
\* registered socket is open.
C35_RegisteredWithinLimit ==
    /\ \A ip \in IPs : Len(ipConnections[ip]) <= maxWebSocketPerIP
    /\ \A c \in Registered : conns[c].state = "open"

(* C35: with maxWebSocketPerIP > 0, in every reachable state no IP has
   more than maxWebSocketPerIP sockets registered, every registered socket
   is open, and every accepted socket that is open is registered in
   ipConnections, so that the tick flushes its send buffer. *)
C35_OpenIsRegistered ==
    /\ C35_RegisteredWithinLimit
    /\ \A c \in AcceptedOpen : c \in Registered

(* C36: on every open socket at most one heartbeat timer is pending: the
   ping timer exactly while waitingPong is false, the pong deadline
   exactly while it is true, and no timer is pending behind a handle that
   was overwritten.  So sendPing, which only the ping timer calls, never
   runs with waitingPong true: its close with 1002 for a duplicate ping
   state cannot happen. *)
C36_OneHeartbeatTimer ==
    \A c \in ConnIds :
        conns[c].state = "open"
        => /\ conns[c].lostTimers = 0
           /\ conns[c].waitingPong
              => conns[c].pingTimer = Undefined /\ conns[c].pongTimer # Undefined
           /\ ~conns[c].waitingPong
              => conns[c].pingTimer # Undefined /\ conns[c].pongTimer = Undefined
           /\ sendPing([Cur EXCEPT !.conns[c].pingTimer = Undefined], c).conns[c].state
                 = (IF conns[c].pingTimer # Undefined THEN "open" ELSE "closed")

\* Two sockets are open: socket 1 waits for a pong, its deadline pending;
\* socket 2 has answered its ping and its next ping is pending.
C36_Witness ==
    /\ conns[1].state = "open"
    /\ conns[1].waitingPong
    /\ conns[1].pongTimer = now + PongTimeoutMs
    /\ conns[2].state = "open"
    /\ ~conns[2].waitingPong
    /\ conns[2].lastPing = now
    /\ conns[2].lastPing > conns[2].connectedAt
    /\ conns[2].pingTimer > now

\* The ban of ip has not expired.
BanRuns(ip) == bannedIPs[ip] # Undefined /\ now < bannedIPs[ip]

\* No open socket of an IP whose ban runs is registered or subscribed.
C37_NoneOpenWhileBanned ==
    \A ip \in IPs, c \in ConnIds :
        (BanRuns(ip) /\ conns[c].ip = ip /\ conns[c].state = "open")
        => c \notin Registered /\ ~conns[c].subscribed

\* No step moves the end of a ban that still runs to an earlier instant.
C37_BanNotShortened ==
    \A ip \in IPs :
        (BanRuns(ip) /\ now' < bannedIPs[ip]) => bannedIPs'[ip] >= bannedIPs[ip]

(* C37: while the ban of an IP has not expired, no open socket of that IP
   is registered in ipConnections or subscribed to the broadcast, since
   every step that bans an IP closes all its sockets and none is accepted
   until the ban is over; hence no later ban shortens a longer one that
   still runs. *)
C37_BannedIpHasNoSocket ==
    /\ []C37_NoneOpenWhileBanned
    /\ [][C37_BanNotShortened]_vars

\* What holds: no socket of an IP whose ban runs is registered.
C37_NoneRegisteredWhileBanned ==
    \A ip \in IPs : BanRuns(ip) => ipConnections[ip] = <<>>

(* C38: with useDB, at every point after the start-up initialisation (the
   legacy import and the duplicate clean-up) has finished, the tokens
   loaded from the database are exactly the registry in memory, so that a
   restart does not change which token is valid for a uid. *)
C38_StoredTokensAreRegistry ==
    (phase = "run" /\ useDB /\ ~migrating) => loadTokens(storage.tokens) = tokens

\* What holds: without a legacy file the stored tokens are the registry.
C38_WithoutLegacyFile ==
    (phase = "run" /\ useDB /\ ~legacy.exists) => loadTokens(storage.tokens) = tokens

====
